---------------------------- MODULE MCEspNowSync ----------------------------
(***************************************************************************)
(* A small instance of EspNowSync: two boards, the one with the lowest MAC *)
(* resets once.                                                            *)
(***************************************************************************)
EXTENDS EspNowSync

Two == {1, 2}
OneReset == <<2, 1>>
=============================================================================
