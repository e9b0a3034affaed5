----------------------------- MODULE MCConfig -----------------------------
EXTENDS Config

CONSTANTS none

MCTable(k, v) == [EmptyTable EXCEPT ![k] = v]

MCToml == [f \in File |-> CASE f = "main.yml" -> "main" [] f = "i1.yml" -> "i1" [] OTHER -> f]

\* TOML files, and YAML files that import YAML and TOML files.
MCFiles(p, i) ==
  [f \in File |-> CASE f = p -> Content(<<i>>, EmptyTable)
                    [] f = i -> Content(<<"i2">>, MCTable("a", 2))
                    [] f = "i2" -> Content(<<>>, MCTable("l", <<2>>))
                    [] OTHER -> Absent]

MCInstalled ==
  [yaml \in BOOLEAN |->
     IF yaml THEN {MCFiles("main.yml", "i1.yml"), MCFiles("main.yml", "i1"), MCFiles("main", "i1.yml")}
     ELSE {[MCFiles("main", "i1") EXCEPT !["i1"] = Content(<<>>, MCTable("a", 2))]}]

\* The imports of the primary file and of its import change, or values do.
MCContents ==
  [f \in File |->
     CASE f = "main" -> {Content(<<"i1">>, EmptyTable), Content(<<"i1", "i2">>, MCTable("a", 1)), Broken, Absent}
       [] f = "i1" -> {Content(<<>>, MCTable("a", 2)), Content(<<>>, MCTable("l", <<3>>)),
                       Content(<<"i2">>, MCTable("l", <<1>>)), Absent}
       [] f = "i2" -> {Content(<<>>, MCTable("l", <<2>>)), Content(<<>>, MCTable("b", 1))}
       [] OTHER -> {}]

MCOptions == {[key |-> "a", val |-> 7, broken |-> FALSE], [key |-> "a", val |-> 8, broken |-> FALSE],
              [key |-> "b", val |-> 0, broken |-> TRUE]}

MCLoads == {{"migrate"}, {"edit"}, {"edit", "remove"}, {"ipc"}, {"edit", "ipc"}}

=============================================================================
