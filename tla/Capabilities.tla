----------------------------- MODULE Capabilities ---------------------------
(***************************************************************************)
(* The controller types a satellite offers and what a binding can carry:   *)
(* catalogues of both schemas, the type a pad is seeded with, the ladder   *)
(* that routes a touchpad, and the four layers of the editor's table.      *)
(***************************************************************************)
EXTENDS Naturals, Sequences, FiniteSets, SequencesExt

-----------------------------------------------------------------------------
(* Catalogues.  A release names its ETag; 0 is no ETag.                    *)

Xbox == 0
Ds4 == 1
SwitchPro == 3

\* BundledCatalog's table; an id outside it degrades to the Xbox row.
typeFeatureSlugsById(id) ==
  {"analogTriggers", "rumble"} \cup
  CASE id = Ds4 -> {"motion", "touchpad", "lightbar", "mic", "speaker"}
    [] id = SwitchPro -> {"motion"}
    [] OTHER -> {}

Row(id, named, features, modes, emulates) ==
  [id |-> id, named |-> named, features |-> features, modes |-> modes, emulates |-> emulates]

\* What a satellite of each release answers with: a schema-1 body whose rows are not to be trusted, a full catalogue,
\* and one whose DualShock 4 is nameless and has no pad routing, and whose host says it takes no rumble.
Releases == 1 .. 3
Body(r) ==
  CASE r = 1 -> [etag |-> 1, version |-> 1, types |-> <<Row(SwitchPro, FALSE, {}, {}, {})>>, host |-> {}]
    [] r = 2 -> [etag |-> 2, version |-> 2, host |-> {"mouse"},
                 types |-> <<Row(Xbox, TRUE, typeFeatureSlugsById(Xbox), {}, {}),
                             Row(Ds4, TRUE, typeFeatureSlugsById(Ds4) \cup {"triggerEffects"}, {"ds4", "mouse"},
                                 {"sony"})>>]
    [] r = 3 -> [etag |-> 3, version |-> 3, host |-> {"noRumble"},
                 types |-> <<Row(Ds4, FALSE, {"rumble", "touchpad"}, {"mouse"}, {"sony"}),
                             Row(SwitchPro, TRUE, typeFeatureSlugsById(SwitchPro), {}, {})>>]

kCatalogVersionCurrent == 2

legacyType(id) == Row(id, TRUE, typeFeatureSlugsById(id), IF id = Ds4 THEN {"ds4"} ELSE {}, {})

normalizeCatalog(c) ==
  IF c.version >= kCatalogVersionCurrent THEN c
  ELSE [c EXCEPT !.version = 1, !.types = <<legacyType(Xbox), legacyType(Ds4)>>]

\* Typed as a catalogue: no release has ETag 0.
NoCatalog == [etag |-> 0, version |-> 0, types |-> <<>>, host |-> {}]

isTypeOfferable(row) == row.named
offerableTypes(c) == SelectSeq(c.types, isTypeOfferable)

\* The first type in the catalogue's order whose hint names the pad's USB identity; an unreadable pad names nothing.
seedFromEmulates(offered, vidPid) ==
  SelectSeq(offered, LAMBDA row : vidPid \in row.emulates)

\* Override, hint, first offered, Xbox.  `override` is a set of at most one.
seedControllerType(override, c, vidPid) ==
  LET offered == offerableTypes(c)
      hinted == seedFromEmulates(offered, vidPid)
  IN CASE override # {} -> CHOOSE t \in override : TRUE
       [] override = {} /\ hinted # <<>> -> Head(hinted).id
       [] override = {} /\ hinted = <<>> /\ offered # <<>> -> Head(offered).id
       [] OTHER -> Xbox

catalogTypeFor(c, id) == SelectSeq(c.types, LAMBDA row : row.id = id)

-----------------------------------------------------------------------------
(* The touchpad's routing.                                                 *)

Picks == {"never", "off", "ds4", "mouse"}
kClientRoutesTouchpadAsMouse == FALSE

mouseModeAvailable(advertised) == kClientRoutesTouchpadAsMouse /\ advertised

touchpadPickOrDefault(pick) == IF pick = "never" THEN "ds4" ELSE pick

\* A catalogue from before the modes lists none: it renders the pad.
typeOffersTouchpadDs4(row) == "touchpad" \in row.features /\ (row.modes = {} \/ "ds4" \in row.modes)

boundTypeOffersTouchpadDs4(id, c) ==
  IF c = NoCatalog THEN "touchpad" \in typeFeatureSlugsById(id)
  ELSE \E i \in DOMAIN catalogTypeFor(c, id) : i = 1 /\ typeOffersTouchpadDs4(catalogTypeFor(c, id)[i])

\* A blocked pick falls back to the other routing.
resolveEitherMode(pick, padHas, typeOffers, mouse) ==
  CASE pick # "off" /\ padHas /\ typeOffers -> "ds4"
    [] pick = "mouse" /\ padHas /\ mouse -> "mouse"
    [] OTHER -> "off"
resolveTouchpadMode(pick, padHas, typeOffers, mouse) ==
  CASE pick = "ds4" /\ padHas /\ typeOffers -> "ds4"
    [] pick = "mouse" /\ padHas /\ mouse -> "mouse"
    [] OTHER -> "off"

declaredTouchpadMode(pick, padHas, id, c) ==
  resolveTouchpadMode(touchpadPickOrDefault(pick), padHas, boundTypeOffersTouchpadDs4(id, c),
                      mouseModeAvailable("mouse" \in c.host))

\* What the editor's draft starts from: a mouse pick reads as off while the mouse is shut.
touchpadChoiceForPick(pick, mouse) ==
  IF touchpadPickOrDefault(pick) = "mouse" /\ ~mouse THEN "off" ELSE touchpadPickOrDefault(pick)

-----------------------------------------------------------------------------
(* The capability table of the editor: four layers and the user's switch.  *)

CapFeatures == {"gamepad", "triggers", "motion", "touchpad", "mouse", "rumble", "lightbar", "triggerEffects",
                "playerLeds", "mic", "speaker"}
Always == {"gamepad", "triggers"}

inputCarries(in) == Always \cup in.pad \cup IF "touchpad" \in in.pad THEN {"mouse"} ELSE {}

linkCarries(in) ==
  CapFeatures \ ((IF in.routesMouse THEN {} ELSE {"mouse"})
                 \cup (IF in.direct \/ in.standardEffects THEN {} ELSE {"triggerEffects", "playerLeds"}))

typeCarries(in) == IF in.typeResolved THEN Always \cup {"mouse"} \cup in.type ELSE CapFeatures

\* An unprobed host carries no audio: the probe, not the catalogue, answers for it.
hostCarries(in) ==
  CASE ~in.hostResolved -> CapFeatures
    [] in.hostResolved /\ in.bluetooth -> Always \cup {"rumble"}
    [] OTHER -> CapFeatures \ ({"mouse", "rumble", "mic", "speaker"} \ in.host)

userEnabled(in, f) ==
  CASE f = "touchpad" -> in.touchpad = "ds4"
    [] f = "mouse" -> in.touchpad = "mouse"
    [] OTHER -> f \notin in.off

capabilitiesPending(in) == ~in.hostResolved \/ (~in.bluetooth /\ ~in.typeResolved)

\* The layers in the order the user can act on them.
Layers(in) == <<inputCarries(in), linkCarries(in), typeCarries(in), hostCarries(in)>>

solveCapabilities(in) ==
  [f \in CapFeatures |->
     IF capabilitiesPending(in) THEN "Pending"
     ELSE LET failing == SelectInSeq(Layers(in), LAMBDA carried : f \notin carried)
          IN CASE failing # 0 -> <<"Input", "Link", "Type", "Host">>[failing]
               [] failing = 0 /\ userEnabled(in, f) -> "Available"
               [] OTHER -> "Off"]

\* A pad as the editor reads it, with the switches and the path of the draft.
EditorInputs(pad, draft) ==
  [pad |-> pad.has, direct |-> pad.claimable /\ draft.direct, standardEffects |-> pad.effects,
   routesMouse |-> kClientRoutesTouchpadAsMouse, off |-> draft.off, touchpad |-> draft.mode, bluetooth |-> FALSE,
   typeResolved |-> FALSE, type |-> {}, hostResolved |-> FALSE, host |-> {}]

\* The candidate is a satellite.  One that says nothing of rumble carries it.
capabilityForCandidate(pad, draft, id, c, audio) ==
  LET row == catalogTypeFor(c, id)
      type == IF row = <<>> THEN {} ELSE row[1].features
      in == [EditorInputs(pad, draft) EXCEPT
               !.hostResolved = c # NoCatalog,
               !.host = (c.host \cap {"mouse"}) \cup (IF "noRumble" \in c.host THEN {} ELSE {"rumble"}) \cup audio,
               !.typeResolved = row # <<>>,
               !.type = (type \ {"touchpad"}) \cup IF row # <<>> /\ typeOffersTouchpadDs4(row[1]) THEN {"touchpad"} ELSE {}]
  IN solveCapabilities(in)

\* The preview pills of a type; no row, no pills.
typeFeatureSummary(c, id) ==
  LET row == catalogTypeFor(c, id) IN
    IF row = <<>> THEN {}
    ELSE Always \cup {"mouse"} \cup (row[1].features \cap {"motion", "rumble", "lightbar"})
         \cup IF typeOffersTouchpadDs4(row[1]) THEN {"touchpad"} ELSE {}

\* Windows' own gamepad layer: no catalogue to wait for.
capabilityForBluetooth(pad, draft) ==
  solveCapabilities([EditorInputs(pad, draft) EXCEPT !.hostResolved = TRUE, !.bluetooth = TRUE])

\* A Moonlight host has no capability interface: the type decides.  Auto is no device of its own.
arrivalTypeFromDevicePick(devicePick) ==
  CASE devicePick = 1 -> "Xbox" [] devicePick = 2 -> "PlayStation" [] devicePick = 3 -> "Nintendo" [] OTHER -> "Unknown"
arrivalTypeForBinding(devicePick, motion) ==
  IF arrivalTypeFromDevicePick(devicePick) # "Unknown" THEN arrivalTypeFromDevicePick(devicePick)
  ELSE IF motion THEN "PlayStation" ELSE "Xbox"
typeCapabilityCeiling(arrival) ==
  IF arrival \in {"Xbox", "Nintendo"} THEN {"rumble"} ELSE {"rumble", "motion", "touchpad", "lightbar"}

capabilityForMoonlight(pad, draft, devicePick) ==
  solveCapabilities([EditorInputs(pad, [draft EXCEPT !.direct = FALSE]) EXCEPT
                       !.hostResolved = TRUE, !.host = {"mouse", "rumble"}, !.typeResolved = TRUE,
                       !.type = typeCapabilityCeiling(arrivalTypeForBinding(devicePick, "motion" \in pad.has))])

touchReachesHost(pick, padHas, arrival) ==
  resolveTouchpadMode(touchpadPickOrDefault(pick), padHas, "touchpad" \in typeCapabilityCeiling(arrival), FALSE) = "ds4"

declaredCapabilities(arrival, pad) == pad.has \cap typeCapabilityCeiling(arrival)
===============================================================================
