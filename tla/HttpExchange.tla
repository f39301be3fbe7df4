------------------------------ MODULE HttpExchange ------------------------------
(***************************************************************************)
(* One HTTP exchange with a satellite, on a TLS socket of its own: dial,   *)
(* check the certificate against the pin, write the request, read the      *)
(* answer however it is cut up, end at the deadline.  Several exchanges    *)
(* with one host share its pin.  (HttpExchange.cpp, HttpFraming.cpp,       *)
(* SatelliteTlsVerifier.cpp, HTTPClient::perform)                          *)
(*                                                                         *)
(* An answer is a sequence of tokens: "LF" ends a line, any other token is *)
(* the whole text of a status line, a field or a chunk size, or one byte   *)
(* of a body.  A token counts as one byte.                                 *)
(***************************************************************************)
EXTENDS Naturals, Sequences, SequencesExt

CONSTANTS Exchanges,   \* exchanges with the host
          Answers      \* what the peer means to say: see Bytes

VARIABLES ex,      \* the exchanges
          pin,     \* the pinned fingerprint, or "none"
          paired,  \* a pairing stands behind the pin (pairedAt)
          stands   \* the certificate the host presents

exchangeVars == <<ex, pin, paired, stands>>

-----------------------------------------------------------------------------
(* What a peer sends for an answer it means: interim responses, a status,  *)
(* a framing and a body.                                                   *)

LineOf(t) == <<t, "LF">>

BodyBytes(a) ==
  CASE a.framing = "none" -> <<>>
    [] a.framing = "chunked" ->
         FlattenSeq([i \in 1 .. Len(a.body) |-> <<"size1", "LF", a.body[i], "LF">>])
           \o <<"size0", "LF", "field", "LF", "LF">>
    [] OTHER -> a.body

Bytes(a) ==
  (IF a.interim THEN LineOf("100") \o <<"LF">> ELSE <<>>)
    \o LineOf(a.status) \o LineOf("field")
    \o (CASE a.framing = "chunked" -> LineOf("chunked")
          [] a.framing = "length" -> LineOf(IF Len(a.body) = 1 THEN "length1" ELSE "length2")
          [] OTHER -> <<>>)
    \o <<"LF">> \o BodyBytes(a)

-----------------------------------------------------------------------------
(* parseHttpResponse                                                       *)

Short(closed) == [state |-> IF closed THEN "Malformed" ELSE "Incomplete", status |-> "", body |-> <<>>]
Malformed == Short(TRUE)
Complete(status, body) == [state |-> "Complete", status |-> status, body |-> body]

\* Cursor.line: the text up to the next LF, and what follows it.
HasLine(b) == \E i \in 1 .. Len(b) : b[i] = "LF"
LineEnd(b) == CHOOSE i \in 1 .. Len(b) : b[i] = "LF" /\ \A j \in 1 .. i - 1 : b[j] # "LF"
Text(b) == SubSeq(b, 1, LineEnd(b) - 1)
After(b) == SubSeq(b, LineEnd(b) + 1, Len(b))

Statuses == {"100", "200", "204"}
Fields == {"field", "chunked", "length1", "length2"}

\* readHead's fields: what follows them, or how they fail.
RECURSIVE readFields(_, _, _)
readFields(b, fields, closed) ==
  IF ~HasLine(b) THEN [ok |-> FALSE, parse |-> Short(closed)]
  ELSE LET line == Text(b)
           rest == After(b) IN
         IF line = <<>> THEN [ok |-> TRUE, fields |-> fields, rest |-> rest]
         ELSE IF Len(line) # 1 \/ line[1] \notin Fields THEN [ok |-> FALSE, parse |-> Malformed]
         ELSE readFields(rest, fields \cup {line[1]}, closed)

framingOf(status, fields) ==
  CASE status = "204" -> "none"
    [] "chunked" \in fields -> "chunked"
    [] fields \cap {"length1", "length2"} # {} -> "length"
    [] OTHER -> "close"

RECURSIVE readTrailers(_, _, _, _)
readTrailers(status, body, b, closed) ==
  IF ~HasLine(b) THEN Short(closed)
  ELSE IF Text(b) = <<>> THEN Complete(status, body)
  ELSE readTrailers(status, body, After(b), closed)

\* A mutant: a chunk is taken as soon as its bytes are, before its line end.
RECURSIVE readChunksEager(_, _, _, _)
readChunksEager(status, body, b, closed) ==
  IF ~HasLine(b) THEN IF body = <<>> THEN Short(closed) ELSE Complete(status, body)
  ELSE IF Text(b) = <<"size0">> THEN readTrailers(status, body, After(b), closed)
  ELSE IF Text(b) # <<"size1">> THEN Malformed
  ELSE IF Len(After(b)) < 1 THEN Short(closed)
  ELSE IF ~HasLine(Tail(After(b))) THEN Complete(status, Append(body, Head(After(b))))
  ELSE readChunksEager(status, Append(body, Head(After(b))), After(Tail(After(b))), closed)

RECURSIVE readChunks(_, _, _, _)
readChunks(status, body, b, closed) ==
  IF ~HasLine(b) THEN Short(closed)
  ELSE LET size == Text(b)
           rest == After(b) IN
         IF size = <<"size0">> THEN readTrailers(status, body, rest, closed)
         ELSE IF size # <<"size1">> THEN Malformed
         ELSE IF Len(rest) < 1 \/ ~HasLine(Tail(rest)) THEN Short(closed)
         ELSE IF Text(Tail(rest)) # <<>> THEN Malformed
         ELSE readChunks(status, Append(body, Head(rest)), After(Tail(rest)), closed)

readLength(status, n, b, closed) ==
  IF Len(b) < n THEN Short(closed) ELSE Complete(status, SubSeq(b, 1, n))

readUntilClose(status, b, closed) == IF closed THEN Complete(status, b) ELSE Short(FALSE)

readBody(status, fields, b, closed) ==
  CASE framingOf(status, fields) = "none" -> Complete(status, <<>>)
    [] framingOf(status, fields) = "chunked" -> readChunks(status, <<>>, b, closed)
    [] framingOf(status, fields) = "length" ->
         readLength(status, IF "length1" \in fields THEN 1 ELSE 2, b, closed)
    [] framingOf(status, fields) = "close" -> readUntilClose(status, b, closed)

RECURSIVE parseHttpResponse(_, _)
parseHttpResponse(b, closed) ==
  IF ~HasLine(b) THEN Short(closed)
  ELSE IF Len(Text(b)) # 1 \/ Text(b)[1] \notin Statuses THEN Malformed
  ELSE LET head == readFields(After(b), {}, closed) IN
         IF ~head.ok THEN head.parse
         ELSE IF Text(b)[1] = "100" THEN parseHttpResponse(head.rest, closed)
         ELSE readBody(Text(b)[1], head.fields, head.rest, closed)

-----------------------------------------------------------------------------
(* Exchange                                                                *)

NoOutcome == [state |-> "none", status |-> "", body |-> <<>>]
Failed == [state |-> "failed", status |-> "", body |-> <<>>]

Idle == [at |-> "idle", cert |-> "none", answer |-> <<>>, meant |-> 0, got |-> 0,
         mismatch |-> FALSE, deadline |-> FALSE, outcome |-> NoOutcome, done |-> 0]

Init ==
  /\ ex = [e \in Exchanges |-> Idle]
  /\ pin \in {"none", "a"}
  /\ paired \in BOOLEAN /\ (paired => pin = "a")
  /\ stands = "a"

Set(e, r) == ex' = [ex EXCEPT ![e] = r]

\* exchangeHttp, start: the deadline runs from here.
start(e) ==
  /\ ex[e].at = "idle"
  /\ \E a \in Answers :
       Set(e, [ex[e] EXCEPT !.at = "dialling", !.deadline = TRUE, !.answer = Bytes(a), !.meant = a])
  /\ UNCHANGED <<pin, paired, stands>>

\* finish: the socket stops talking to the exchange; deliver is queued.
finish(x, outcome) == [x EXCEPT !.at = "settled", !.deadline = FALSE, !.outcome = outcome]

\* verifyPeerCertificate: <<trusted, the pin after, a mismatch>>.
verifyPeerCertificate(cert) ==
  CASE cert = "none" -> <<FALSE, pin, FALSE>>
    [] pin = "none" -> <<TRUE, cert, FALSE>>
    [] pin = cert -> <<TRUE, pin, FALSE>>
    [] OTHER -> IF paired THEN <<FALSE, pin, TRUE>> ELSE <<TRUE, cert, FALSE>>

\* A mutant: the request goes out with the handshake, and the check comes after.
onEncryptedEarly(e) ==
  /\ ex[e].at = "dialling"
  /\ \E cert \in {stands, "none"} :
       LET v == verifyPeerCertificate(cert) IN
         /\ Set(e, [ex[e] EXCEPT !.at = "waiting", !.cert = cert, !.mismatch = v[3]])
         /\ pin' = v[2]
  /\ UNCHANGED <<paired, stands>>

\* onEncrypted: the pin is checked, then the request written.
onEncrypted(e) ==
  /\ ex[e].at = "dialling"
  /\ \E cert \in {stands, "none"} :
       LET v == verifyPeerCertificate(cert)
           x == [ex[e] EXCEPT !.cert = cert, !.mismatch = v[3]] IN
         /\ Set(e, IF v[1] THEN [x EXCEPT !.at = "waiting"] ELSE finish(x, Failed))
         /\ pin' = v[2]
  /\ UNCHANGED <<paired, stands>>

readResponse(x, closed) ==
  LET p == parseHttpResponse(SubSeq(x.answer, 1, x.got), closed) IN
    CASE p.state = "Incomplete" -> x
      [] p.state = "Malformed" -> finish(x, Failed)
      [] p.state = "Complete" -> finish(x, p)

\* onReadyRead: some more of the answer is there.
onReadyRead(e) ==
  /\ ex[e].at = "waiting"
  /\ \E n \in ex[e].got + 1 .. Len(ex[e].answer) :
       Set(e, readResponse([ex[e] EXCEPT !.got = n], FALSE))
  /\ UNCHANGED <<pin, paired, stands>>

\* onDisconnected: the peer hung up, after all of its answer or early.
onDisconnected(e) ==
  /\ ex[e].at = "waiting"
  /\ Set(e, readResponse(ex[e], TRUE))
  /\ UNCHANGED <<pin, paired, stands>>

\* onError, other than the peer hanging up; onDeadline.
onError(e) ==
  /\ ex[e].at \in {"dialling", "waiting"}
  /\ Set(e, finish(ex[e], Failed))
  /\ UNCHANGED <<pin, paired, stands>>

\* A mutant: the deadline covers the dial alone.
onDeadlineDialling(e) ==
  /\ ex[e].deadline /\ ex[e].at = "dialling"
  /\ Set(e, finish(ex[e], Failed))
  /\ UNCHANGED <<pin, paired, stands>>

onDeadline(e) ==
  /\ ex[e].deadline /\ ex[e].at \in {"dialling", "waiting"}
  /\ Set(e, finish(ex[e], Failed))
  /\ UNCHANGED <<pin, paired, stands>>

deliver(e) ==
  /\ ex[e].at = "settled"
  /\ Set(e, [Idle EXCEPT !.at = IF ex[e].outcome.state = "Complete" THEN "answered" ELSE "failed",
                          !.cert = ex[e].cert, !.done = ex[e].done + 1])
  /\ UNCHANGED <<pin, paired, stands>>

\* The client and the host around them: a pairing stands once an exchange was
\* answered; a Forget drops pairing and pin; the host is reinstalled.
PairOn(e) ==
  /\ ~paired /\ ex[e].at = "answered"
  /\ ex[e].cert = pin
  /\ paired' = TRUE
  /\ UNCHANGED <<ex, pin, stands>>

Forget == paired /\ paired' = FALSE /\ pin' = "none" /\ UNCHANGED <<ex, stands>>

Reinstall == stands = "a" /\ stands' = "b" /\ UNCHANGED <<ex, pin, paired>>

Next ==
  \/ \E e \in Exchanges :
       \/ start(e) \/ onEncrypted(e) \/ onReadyRead(e) \/ onDisconnected(e)
       \/ onError(e) \/ onDeadline(e) \/ deliver(e) \/ PairOn(e)
  \/ Forget \/ Reinstall

Ending(e) == onDeadline(e) \/ deliver(e)

Spec == Init /\ [][Next]_exchangeVars /\ \A e \in Exchanges : WF_exchangeVars(Ending(e))

-----------------------------------------------------------------------------
(* Properties                                                              *)

\* What the peer meant, or a failure: a body cut short by the peer is one, but for a body that
\* only the close ends.
Whole(x) ==
  x.outcome.state = "Complete" =>
    /\ x.outcome.status = x.meant.status
    /\ \/ x.outcome.body = x.meant.body
       \/ x.meant.framing = "close" /\ IsPrefix(x.outcome.body, x.meant.body)
    /\ ~x.mismatch

\* However the answer is cut into reads, an exchange that says Complete says what the peer meant,
\* and calls its caller back once.  A request is written only to a peer whose certificate the
\* check accepted, and while a pairing stands its pin does not move: a reinstalled host is refused.
AnsweredByThePinned ==
  /\ paired /\ paired' => pin' = pin
  /\ \A e \in Exchanges :
       /\ Whole(ex'[e]) /\ ex'[e].done <= 1
       /\ ex'[e].at = "waiting" /\ ex[e].at # "waiting" => ex'[e].cert = pin' /\ ex'[e].cert # "none"

\* No exchange is under way.
Ended == \A e \in Exchanges : ex[e] = Idle \/ ex[e].done = 1

=============================================================================
