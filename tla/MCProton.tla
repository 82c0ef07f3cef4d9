------------------------------ MODULE MCProton ------------------------------
(***************************************************************************)
(* Instances of ProtonSession and of ProtonProfiler.  The sessions call the *)
(* profiler, which calls none of them: a behaviour follows the session      *)
(* manager over a profiler that is only on or off, with the scopes or with  *)
(* the operations of two threads, or the profiler under the calls one       *)
(* session makes.                                                           *)
(***************************************************************************)
EXTENDS ProtonSession, ProtonProfiler, TLC

CONSTANTS t1, t2, p1, p2, n1, n2, d1, d2, s1, s2

MCDrivers ==
    {[backend |-> "cupti", nested |-> n, externalFirst |-> TRUE] : n \in BOOLEAN}
    \cup [backend : {"cupti", "roctracer"}, nested : {FALSE}, externalFirst : BOOLEAN]

VARIABLE part

MCInit ==
    /\ Init /\ ProfilerInit
    /\ \/ part \in {"scopes", "operations"} /\ driver = CHOOSE d \in MCDrivers : TRUE
       \/ part = "profiler"

\* Threads, paths and names can be exchanged: the first that comes, when the
\* state holds none of its kind, is t1, p1 or n1.
FirstOfEach ==
    /\ nextSessionId = 0 /\ nextSessionId' = 1 => path'[0] = p1
    /\ (\A t \in Thread : frames[t] = <<>> /\ ~launching[t] /\ localScopes[t] = 0
                          /\ opInProgress[t] = {})
          => \A t \in Thread \ {t1} : frames'[t] = <<>> /\ ~launching'[t] /\ opInProgress'[t] = {}
    /\ (\A t \in Thread : frames[t] = <<>>) /\ (\A id \in Id : contextStack[id] = <<>>)
          => \A t \in Thread : frames'[t] # <<>> => frames'[t][1].name = n1

\* Two scopes, and two scopes of the hooks, over both threads, of which the
\* second has scopes open as long as one session was started; once the driver
\* has raised, one, and one thread that launches kernels.
FewOpen ==
    /\ Len(frames'[t1]) + Len(frames'[t2]) <= 2 - errors'
    /\ localScopes'[t1] + localScopes'[t2] <= 2 - errors'
    /\ \A id \in Id : Len(contextStack'[id]) <= 2 - errors'
    /\ frames'[t2] # <<>> => nextSessionId' <= 1
    /\ errors' > 0 => ~launching'[t2] /\ opInProgress'[t2] = {}

\* The context of a session that sees scopes is "shadow".
ScopesOnly == launching' = launching /\ \A id \in 0..nextSessionId' - 1 : shadow'[id]
OperationsOnly == frames' = frames /\ (nextSessionId' > 0 => shadow'[0])

MCNext ==
    \/ /\ Next /\ FirstOfEach /\ FewOpen
       /\ \/ part = "scopes" /\ ScopesOnly
          \/ part = "operations" /\ OperationsOnly
       /\ UNCHANGED <<part, profilerVars>>
    \/ part = "profiler" /\ ProfilerNext /\ UNCHANGED <<part, vars>>

\* The other component stays in its initial state, where its properties hold.
MCSpec ==
    /\ MCInit /\ [][MCNext]_<<part, vars, profilerVars>>
    /\ Fairness

=============================================================================
