--------------------------- MODULE MCReplyPipeline ---------------------------
(* Small instances of ReplyPipeline: a group message to two recipients, a  *)
(* direct message, one without recipients and one that is refused.         *)
EXTENDS ReplyPipeline, TLC

CONSTANTS m1, m2, m3, m4, alice, bob, carol

MCTargetsAll == (m1 :> <<alice, bob>>) @@ (m2 :> <<alice>>)
                @@ (m3 :> << >>) @@ (m4 :> <<alice>>)
MCTargets    == [m \in Msgs |-> MCTargetsAll[m]]
MCSender     == [m \in Msgs |-> carol]
MCForbidden  == {m4} \cap Msgs
SlotSymmetry == Permutations(Slots)
=============================================================================
