---------------------------- MODULE MCChatQuery ----------------------------
(* Small instances of ChatQuery for TLC.                                    *)
EXTENDS ChatQuery
=============================================================================
