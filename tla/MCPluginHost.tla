---------------------------- MODULE MCPluginHost ----------------------------
(***************************************************************************)
(* An instance of PluginHost for TLC: two builds of one kind, one caller   *)
(* that downloads, pins and loads, and one that creates.                   *)
(***************************************************************************)
EXTENDS PluginHost

CONSTANTS b1, b2, source, installer, user

MCKindOf == [b \in Builds |-> source]
MCDoes == [c \in Callers |-> IF c = installer THEN {"install", "reinstall", "pull", "load_dir"}
                             ELSE {"create"}]

=============================================================================
