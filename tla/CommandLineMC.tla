---------------------------- MODULE CommandLineMC ----------------------------
(* Names for TLC: two letters suffice for a name that begins another one. *)
EXTENDS CommandLine

MCCommands == [c \in {"full", "fuller", "reset"} |->
                 CASE c = "full"   -> <<"t">>
                   [] c = "fuller" -> <<"t", "f">>
                   [] OTHER        -> <<"f">>]

=============================================================================
