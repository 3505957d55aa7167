---------------------------- MODULE MCSysMessage ----------------------------
(* Three posters of two messages each.                                      *)
EXTENDS SysMessage

Posters == {"ui", "http", "pub"}
=============================================================================
