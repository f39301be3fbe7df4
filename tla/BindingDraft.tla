----------------------------- MODULE BindingDraft -----------------------------
(***************************************************************************)
(* The binding editor: one draft over two pads, a satellite and a          *)
(* Moonlight host, sanitised after every change, while the satellite's     *)
(* catalogue arrives and is replaced behind it; and Apply, which writes    *)
(* the draft to the stores that the descriptor is then resolved from.  The *)
(* satellite's touchpad pick is shared by both pads.                       *)
(***************************************************************************)
EXTENDS Capabilities

CONSTANTS MaxEdits \* bound: changes of the draft, Applies and catalogues

VARIABLES draft,    \* the draft
          known,    \* the satellite's cached catalogue
          pickOf,   \* TouchpadModeStore's pick for the satellite
          typeOf,   \* ControllerTypeStore's override of each pad, a set of at most one
          switches, \* the preferences of each pad that are off
          declared, \* history: each pad's last Apply, as the editor showed it and as the descriptor says it
          turnedOff, \* history: an Apply showed the satellite's touchpad off, or could not tell
          edits

draftVars == <<draft, known, pickOf, typeOf, switches, declared, turnedOff, edits>>

DraftPads == {"plain", "sony"}
PadOf == [p \in DraftPads |->
            [has |-> IF p = "sony" THEN {"rumble", "motion", "touchpad", "lightbar", "triggerEffects"} ELSE {"rumble"},
             claimable |-> p = "sony", effects |-> FALSE]]
VidPid(p) == IF p = "sony" THEN "sony" ELSE "other"

NoType == 99
MoonTypes == {255, 1, 2, 3}
NotDeclared == [to |-> "none", type |-> NoType, shown |-> "none", asked |-> NoType, touch |-> "none"]

Init ==
  /\ draft = [pad |-> "none", host |-> "none", type |-> NoType, direct |-> FALSE, off |-> {}, mode |-> "off"]
  /\ known = NoCatalog
  /\ pickOf \in Picks
  /\ typeOf = [p \in DraftPads |-> {}]
  /\ switches \in [DraftPads -> {{}, {"motion"}}]
  /\ declared = [p \in DraftPads |-> NotDeclared]
  /\ turnedOff = (pickOf \in {"off", "mouse"})
  /\ edits = 0

Edit ==
  /\ edits < MaxEdits
  /\ edits' = edits + 1

-----------------------------------------------------------------------------
(* The draft.                                                              *)

\* The table of a draft; no input, no rows.
capabilityRows(d, c) ==
  CASE d.host = "moon" -> capabilityForMoonlight(PadOf[d.pad], d, d.type)
    [] d.host = "sat" -> capabilityForCandidate(PadOf[d.pad], d, d.type, c, {})
    [] OTHER -> [f \in CapFeatures |-> "Pending"]

\* Pending is "not read yet", never "no".
layersCarry(rows, f) == rows[f] \in {"Pending", "Available", "Off"}

Sanitised(d, c) ==
  IF d.pad = "none" THEN d
  ELSE LET rows == capabilityRows(d, c)
           refused == \/ d.mode = "ds4" /\ ~layersCarry(rows, "touchpad")
                      \/ d.mode = "mouse" /\ ~layersCarry(rows, "mouse")
       IN IF refused THEN [d EXCEPT !.mode = "off"] ELSE d

sanitize(d) == draft' = Sanitised(d, known)

chooseInput(p) ==
  /\ Edit
  /\ \E direct \in BOOLEAN :
       /\ direct => PadOf[p].claimable
       /\ sanitize([draft EXCEPT !.pad = p, !.direct = direct, !.off = switches[p]])
  /\ UNCHANGED <<known, pickOf, typeOf, switches, declared, turnedOff>>

choosePath ==
  /\ Edit
  /\ draft.pad # "none" /\ PadOf[draft.pad].claimable
  /\ sanitize([draft EXCEPT !.direct = ~@])
  /\ UNCHANGED <<known, pickOf, typeOf, switches, declared, turnedOff>>

\* A different host is a different catalogue, and its own pick.  A Moonlight type resolves at once.
chooseDestination(h) ==
  /\ Edit
  /\ draft.pad # "none" /\ h # draft.host
  /\ IF h = "sat"
     THEN sanitize([draft EXCEPT !.host = h, !.type = NoType,
                                 !.mode = touchpadChoiceForPick(pickOf, mouseModeAvailable("mouse" \in known.host))])
     ELSE \E t \in MoonTypes : sanitize([Sanitised([draft EXCEPT !.host = h, !.type = NoType], known) EXCEPT !.type = t])
  /\ UNCHANGED <<known, pickOf, typeOf, switches, declared, turnedOff>>

\* An unread satellite offers the types of the last catalogue read of any; a bound one starts from its type today.
pickableTypes ==
  LET offered(c) == {row.id : row \in ToSet(offerableTypes(c))} IN
    {seedControllerType(typeOf[draft.pad], known, VidPid(draft.pad))} \cup
    IF known # NoCatalog THEN offered(known) ELSE UNION {offered(normalizeCatalog(Body(r))) : r \in Releases}

chooseType(t) ==
  /\ Edit
  /\ draft.pad # "none" /\ t # draft.type
  /\ \/ draft.host = "moon" /\ t \in MoonTypes
     \/ draft.host = "sat" /\ t \in pickableTypes
  /\ sanitize([draft EXCEPT !.type = t])
  /\ UNCHANGED <<known, pickOf, typeOf, switches, declared, turnedOff>>

\* The controls that the table offers: a switch, and the routing.
setMotion ==
  /\ Edit
  /\ draft.pad # "none" /\ layersCarry(capabilityRows(draft, known), "motion")
  /\ sanitize([draft EXCEPT !.off = {"motion"} \ @])
  /\ UNCHANGED <<known, pickOf, typeOf, switches, declared, turnedOff>>

setTouchpad(mode) ==
  /\ Edit
  /\ draft.pad # "none" /\ mode # draft.mode
  /\ LET rows == capabilityRows(draft, known) IN
       /\ layersCarry(rows, "touchpad") \/ layersCarry(rows, "mouse")
       /\ mode = "mouse" => rows["mouse"] \in {"Available", "Off"}
  /\ sanitize([draft EXCEPT !.mode = mode])
  /\ UNCHANGED <<known, pickOf, typeOf, switches, declared, turnedOff>>

\* A catalogue is cached; the picker's reply sanitises the draft, a background one does not.
CatalogueCached(r, picker) ==
  /\ Edit
  /\ known' = normalizeCatalog(Body(r))
  /\ known' # known
  /\ draft' = IF picker THEN Sanitised(draft, known') ELSE draft
  /\ UNCHANGED <<pickOf, typeOf, switches, declared, turnedOff>>

-----------------------------------------------------------------------------
(* Apply.                                                                  *)

\* A binding that carries neither routing keeps the host's pick.
AlwaysTheDraft(rows) == draft.mode
touchpadModeToApply(rows) ==
  IF layersCarry(rows, "touchpad") \/ layersCarry(rows, "mouse") THEN draft.mode ELSE pickOf

hasType == draft.host = "moon" \/ draft.type # NoType

\* Every setting is written before the binding; the lowest type is not.  The descriptor is resolved from the stores.
beginApplyBind ==
  LET p == draft.pad
      rows == capabilityRows(draft, known) IN
  /\ Edit
  /\ draft.host = "sat" /\ hasType
  /\ typeOf' = IF draft.type > 0 THEN [typeOf EXCEPT ![p] = {draft.type}] ELSE typeOf
  /\ switches' = [switches EXCEPT ![p] = draft.off]
  /\ pickOf' = touchpadModeToApply(rows)
  /\ turnedOff' = (turnedOff \/ rows["touchpad"] \in {"Off", "Pending"})
  /\ LET type == seedControllerType(typeOf'[p], known, VidPid(p)) IN
       declared' = [declared EXCEPT ![p] =
                      [to |-> "sat", type |-> type, asked |-> draft.type, shown |-> rows["touchpad"],
                       touch |-> declaredTouchpadMode(pickOf', "touchpad" \in PadOf[p].has, type, known)]]
  /\ UNCHANGED <<draft, known>>

\* A Moonlight host's pick is never written: touch reaches it as for one that was never asked.
applyMoonlightBinding ==
  LET p == draft.pad
      arrival == arrivalTypeForBinding(draft.type, "motion" \in PadOf[p].has) IN
  /\ Edit
  /\ draft.host = "moon" /\ hasType
  /\ declared' = [declared EXCEPT ![p] =
                    [to |-> "moon", type |-> draft.type, asked |-> draft.type,
                     shown |-> capabilityRows(draft, known)["touchpad"],
                     touch |-> IF touchReachesHost("never", "touchpad" \in PadOf[p].has, arrival) THEN "ds4" ELSE "off"]]
  /\ UNCHANGED <<draft, known, pickOf, typeOf, switches, turnedOff>>

Next ==
  \/ \E p \in DraftPads : chooseInput(p)
  \/ choosePath \/ setMotion \/ beginApplyBind \/ applyMoonlightBinding
  \/ \E h \in {"sat", "moon"} : chooseDestination(h)
  \/ \E t \in MoonTypes \cup {Xbox, Ds4, SwitchPro} : chooseType(t)
  \/ \E mode \in {"off", "ds4", "mouse"} : setTouchpad(mode)
  \/ \E r \in Releases, picker \in BOOLEAN : CatalogueCached(r, picker)

Spec == Init /\ [][Next]_draftVars

-----------------------------------------------------------------------------
(* Properties.                                                             *)

\* The table, the preview and the arrival say the same of a draft.
TablesAgree ==
  draft.pad # "none" =>
    LET rows == capabilityRows(draft, known)
        pad == PadOf[draft.pad] IN
    /\ draft.host = "sat" /\ rows["gamepad"] # "Pending" =>
         \A f \in {"motion", "touchpad", "mouse", "rumble", "lightbar"} :
           rows[f] \notin {"Input", "Link"} => (rows[f] = "Type") = (f \notin typeFeatureSummary(known, draft.type))
    /\ draft.host = "moon" /\ draft.type # NoType /\ rows["motion"] = "Available" =>
         "motion" \in declaredCapabilities(arrivalTypeForBinding(draft.type, "motion" \in pad.has), pad)
    /\ known # NoCatalog =>
         capabilityForCandidate(pad, draft, seedControllerType({}, known, VidPid(draft.pad)), known, {})["gamepad"] # "Pending"
    /\ \A f \in {"motion", "touchpad", "mouse", "lightbar"} : capabilityForBluetooth(pad, draft)[f] # "Available"

\* The editor shows what the wire carries (TouchpadModeResolve.h, BindingDraft.qml).  An Apply whose table was
\* resolved, and whose type the satellite's store took, declares the pad routing exactly where the table's touchpad
\* row said Available: one computation goes layer by layer, the other down a ladder.  A Moonlight binding that shows
\* touch has it.  The satellite's pick, which its pads share, is turned off only by an Apply that showed the touchpad
\* off, so binding a pad without one leaves the others' touch alone.  And a draft's preview pills refuse what its table
\* refuses, its arrival declares the motion promised, and the type seeded for it is one that the table knows.
EditorShowsTheWire ==
  /\ \A p \in DraftPads : LET d == declared[p] IN
       /\ d.to = "sat" /\ d.type = d.asked /\ d.shown # "Pending" => (d.shown = "Available") = (d.touch = "ds4")
       /\ d.to = "moon" /\ d.shown = "Available" => d.touch = "ds4"
  /\ pickOf \in {"off", "mouse"} => turnedOff
  /\ TablesAgree

\* What beginApplyBind's comment says: one PUT carries the whole draft, its type included.
WholeDraftIsCarried == \A p \in DraftPads : declared[p].to = "sat" => declared[p].type = declared[p].asked
=============================================================================
