------------------------ MODULE MCDispatchMsgService ------------------------
(***************************************************************************)
(* DispatchMsgService for TLC: two events of one id and one that did not   *)
(* decode.                                                                 *)
(***************************************************************************)
EXTENDS DispatchMsgService

CONSTANTS login, e1, e2, bad

MCEidOf == e1 :> login @@ e2 :> login @@ bad :> EID_UNKOWN
=============================================================================
