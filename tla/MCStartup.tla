----------------------------- MODULE MCStartup -----------------------------
(***************************************************************************)
(* Startup with two options: one is set by a word in the environment, the  *)
(* other has a garbled number there and falls back to its default.         *)
(***************************************************************************)
EXTENDS Startup

MCEnv == <<[kind |-> "yes", value |-> 0, default |-> 7],
           [kind |-> "garbled", value |-> 0, default |-> 5]>>

=============================================================================
