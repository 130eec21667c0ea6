--------------------------- MODULE MCDataChannels ---------------------------
(* Small instances of DataChannels for TLC: who creates channels. *)
EXTENDS DataChannels

ClientOnly == {Client}
Both == {Client, Server}
=============================================================================
