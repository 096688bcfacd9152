-------------------------- MODULE MC_AuthoringLoop --------------------------
(* Two invocations with the same inputs on one output directory, two files,  *)
(* two rounds.  The seeds: sound, weak, one with a file that half fills the  *)
(* preview budget, one with the evidence of an earlier loop, one with other  *)
(* evidence, one with a credential.                                          *)
EXTENDS AuthoringLoop

CONSTANTS p1, p2, d1, d2

MCDerivation == [p \in {p1, p2} |-> d1]
Tree(x, y, b) == [file |-> [f |-> x, g |-> y], bound |-> b]
MCSeeds == {Tree("weak", "sound", None), Tree("bulk", "sound", d1),
            Tree("sound", "sound", d2), Tree("leak", "sound", None)}

Item(path, content) == [path |-> path, content |-> content]
MCPatches ==
  {<<Item("f", "sound")>>, <<Item("g", "bulk")>>, <<Item("g", "leak")>>,
   <<Item("f", "sound"), Item("g", "weak")>>,
   <<Item("f", "sound"), Item(DirPath, "sound")>>,
   <<Item("f", "sound"), Item(BoundPath, "weak")>>,
   <<Item("f", "bulk"), Item("g", "bulk")>>,
   <<Item("f", "sound"), Item("f", "weak")>>, <<>>}

Answer(d, c, g) == [decision |-> d, complete |-> c, passing |-> g]
MCAnswers == {Answer("promising", TRUE, TRUE), Answer("promising", FALSE, TRUE),
              Answer("revise", TRUE, FALSE)}
=============================================================================
