----------------------------- MODULE MCSession ------------------------------
(* Values for the constants of Session.                                    *)
EXTENDS Session

CONSTANTS bigmac, cheese

MCBurgers == {bigmac, cheese}

=============================================================================
