------------------------------ MODULE MCSession ------------------------------
(* Values for the constants of Session.                                    *)
EXTENDS Session

MCJunk == {0}
=============================================================================
