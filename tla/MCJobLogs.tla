------------------------------ MODULE MCJobLogs ------------------------------
(***************************************************************************)
(* Small instances of JobLogs for TLC.                                     *)
(***************************************************************************)
EXTENDS JobLogs

\* The pods share one container, which is not the first one's default.
MCContainersOf == <<<<"a", "b">>, <<"b">>>>

\* With timestamps the first pod's lines tell their order and the second's were
\* written at one time; without, none does.  The second's text runs backwards.
MCTimeOf ==
  [o \in Options |->
     IF o = "stamped" THEN <<[i \in LineNumbers |-> i], [i \in LineNumbers |-> 2]>>
     ELSE [p \in Pods |-> [i \in LineNumbers |-> 0]]]
MCTextOf == <<[i \in LineNumbers |-> i], [i \in LineNumbers |-> Cardinality(LineNumbers) - i]>>
=============================================================================
