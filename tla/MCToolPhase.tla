---------------------------- MODULE MCToolPhase ----------------------------
(* ToolPhase with an edit of a file and a search of the directory next to it  *)
(* (1 and 2), a write of the tree that holds both (3) and a read in that tree *)
(* (4); a fifth call is answered without running.                           *)
EXTENDS ToolPhase

MCCalls == 1..5

MCPaths == {<<"src">>, <<"src", "lib">>, <<"src", "main.rs">>, <<"src", "lib", "a.rs">>,
            <<"docs">>}

MCAccesses ==
    [c \in MCCalls |->
        CASE c = 1 -> {File("read_write", <<"src", "main.rs">>, FALSE)}
          [] c = 2 -> {File("search", <<"src", "lib">>, TRUE), File("read", <<"docs">>, FALSE)}
          [] c = 3 -> {File("write", <<"src">>, TRUE)}
          [] c = 4 -> {File("read", <<"src", "lib", "a.rs">>, FALSE)}
          [] OTHER -> {}]
=============================================================================
