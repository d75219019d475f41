----------------------------- MODULE MCCoreMain -----------------------------
(* Command lines as sequences of arguments, an argument as its characters.  *)
EXTENDS CoreMain

N0 == <<"0">>
N7 == <<"7">>
N8 == <<"8">>
N40 == <<"4", "0">>
N603 == <<"6", "0", "3">>
N1200 == <<"1", "2", "0", "0">>
N6000 == <<"6", "0", "0", "0">>
Validation == <<"0", "x", "3", "4", "1", "5">>

(* No seeds, with and without contexts asked for; the validation run by its *)
(* seeds and by the short form; blocks of other sizes, the odd one without  *)
(* room to align its matrices; unknown seeds.                               *)
Runs ==
  {<<>>,
   <<<<"1">>, N0, N0, N40>>,
   <<N8, N8, N8, N40, N0, N0, N1200>>,
   <<N7, N7, N7, N40, N0, N0, N603>>,
   <<N7, N7, N7, <<"1">>>>}

ParallelRuns ==
  {<<<<"M", "1">>>>,
   <<<<"M", "0">>, N0>>,
   <<<<"M", "9">>, Validation, Validation, <<"0", "x", "6", "6">>>>,
   <<<<"M", "2">>, N0, N0, N0, N40, N7, N0, N6000>>,
   <<<<"M", "-", "1">>, N7, N7, N7>>}

(* ITERATIONS of the makefile, of the build script, and a long run.         *)
Iterations == {<<N0>>, <<<<"1">>>>, <<N40>>}

MCMethods == {"single", "pthread", "fork", "socket"} \union BareMetal
MCArgvs ==
  [b \in MCMethods |-> CASE b \in BareMetal -> Iterations
                         [] b = "single"     -> Runs
                         [] OTHER            -> Runs \union ParallelRuns]

(* From a fifth of a second to ten for an iteration; the two extremes where *)
(* the contexts matter.  On the processor, ten iterations take 0.1, 1.02, 5 *)
(* or 10 seconds: the clock does not go round, or once, or twice.           *)
MCTicks ==
  [b \in MCMethods |-> CASE b \in BareMetal -> {20000, 200000, 976563, 1953125}
                         [] b = "single"     -> 1 .. 60
                         [] OTHER            -> {1, 99}]
=============================================================================
