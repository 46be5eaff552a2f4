------------------------------ MODULE MCBrowser ------------------------------
(***************************************************************************)
(* Two key pairs, so that an identity can be forgotten and replaced; two   *)
(* operations at once, so that any two of them overlap; and one request of *)
(* the bell, which is enough for it to outlive the session it began in.    *)
(***************************************************************************)
EXTENDS Browser
=============================================================================
