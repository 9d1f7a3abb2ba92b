----------------------- MODULE StickerSetBoxProtocol -----------------------
(***************************************************************************)
(* What one StickerSetBox promises, per box and abstracting the registry: *)
(* it loads, is shown with its set, may send at most one install request, *)
(* and only while shown; once it starts closing it is only destroyed; a    *)
(* load and a sent install always come to an end, and a hidden box is     *)
(* destroyed.  StickerSetBox implements it (StickerSetBox!ProtocolSpec).  *)
(***************************************************************************)
CONSTANTS Boxes

VARIABLES
    phase,      \* idle, loading, shown, closing, gone
    requested   \* the box has sent its install request

protocolVars == <<phase, requested>>

Phases == {"idle", "loading", "shown", "closing", "gone"}

ProtocolTypeOK ==
    /\ phase \in [Boxes -> Phases]
    /\ requested \in [Boxes -> BOOLEAN]

ProtocolInit ==
    /\ phase = [b \in Boxes |-> "idle"]
    /\ requested = [b \in Boxes |-> FALSE]

Step(b, from, to) ==
    /\ phase[b] \in from
    /\ phase' = [phase EXCEPT ![b] = to]

Show(b)    == Step(b, {"idle"}, "loading") /\ UNCHANGED requested
Loaded(b)  == Step(b, {"loading"}, "shown") /\ UNCHANGED requested
Close(b)   == Step(b, {"loading", "shown"}, "closing") /\ UNCHANGED requested
Destroy(b) == Step(b, {"closing"}, "gone") /\ UNCHANGED requested

\* An informational box shown over the layer closes every box of it at once.
CloseLayer ==
    /\ \E b \in Boxes : phase[b] \in {"loading", "shown"}
    /\ phase' = [b \in Boxes |-> IF phase[b] \in {"loading", "shown"}
                                 THEN "closing" ELSE phase[b]]
    /\ UNCHANGED requested

RequestInstall(b) ==
    /\ phase[b] = "shown"
    /\ ~requested[b]
    /\ requested' = [requested EXCEPT ![b] = TRUE]
    /\ UNCHANGED phase

\* The load ends, shown or closing; a sent install ends with the box closing.
LoadEnds(b) ==
    /\ phase[b] = "loading"
    /\ Loaded(b) \/ Close(b) \/ CloseLayer
InstallEnds(b) ==
    /\ requested[b] /\ phase[b] = "shown"
    /\ Close(b) \/ CloseLayer

ProtocolNext ==
    \/ CloseLayer
    \/ \E b \in Boxes :
          Show(b) \/ Loaded(b) \/ Close(b) \/ Destroy(b) \/ RequestInstall(b)

ProtocolSpec ==
    /\ ProtocolInit
    /\ [][ProtocolNext]_protocolVars
    /\ \A b \in Boxes :
         /\ WF_protocolVars(LoadEnds(b))
         /\ WF_protocolVars(InstallEnds(b))
         /\ WF_protocolVars(Destroy(b))

====
