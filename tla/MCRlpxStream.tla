---------------------------- MODULE MCRlpxStream ----------------------------
(***************************************************************************)
(* Two protocols.  The codes of the second are sent as 17 to 128: 127 is   *)
(* the last code that a frame can carry.                                   *)
(***************************************************************************)
EXTENDS RlpxStream, TLC

CONSTANTS eth, les

MCOrder == <<eth, les>>
MCLength == eth :> 1 @@ les :> 112
MCMsgCodes == eth :> {0} @@ les :> {110, 111}
MCBodies == {<<>>, <<1, 0>>}
=============================================================================
