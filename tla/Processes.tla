------------------------------ MODULE Processes -------------------------------
(***************************************************************************)
(* What the operating system shows a reader of other processes: which      *)
(* process a process id stands for, which modules it has loaded, and       *)
(* whether it is still there.  An id is given out again after its process  *)
(* has exited, but not while somebody holds a handle to that process.      *)
(*                                                                         *)
(* External to the library: win_process.hpp and win_module.hpp use it      *)
(* through OpenProcess and CreateToolhelp32Snapshot.                       *)
(***************************************************************************)
EXTENDS Naturals, FiniteSets

CONSTANTS
  Pids,       \* process ids, positive
  Instances,  \* process instances, of whatever program; each runs once
  Il2Cpp,     \* those that load GameAssembly.dll, after UnityPlayer.dll
  None        \* no instance

ASSUME ProcessAssumption ==
  /\ Pids \subseteq Nat \ {0}
  /\ IsFiniteSet(Pids)
  /\ Il2Cpp \subseteq Instances
  /\ None \notin Instances

VARIABLES
  host,    \* the process an id stands for, or None
  pidOf,   \* the id each instance was given, 0 before it is started
  loaded   \* the modules each instance has loaded so far

osVars == <<host, pidOf, loaded>>

Modules == {"UnityPlayer", "GameAssembly"}

OsInit ==
  /\ host = [p \in Pids |-> None]
  /\ pidOf = [i \in Instances |-> 0]
  /\ loaded = [i \in Instances |-> {}]

Alive(i) == i # None /\ pidOf[i] # 0 /\ host[pidOf[i]] = i

(***************************************************************************)
(* held is the instance to which a handle is open, or None.                *)
(***************************************************************************)
Start(i, p, held) ==
  /\ pidOf[i] = 0
  /\ host[p] = None
  /\ held # None => pidOf[held] # p
  /\ host' = [host EXCEPT ![p] = i]
  /\ pidOf' = [pidOf EXCEPT ![i] = p]
  /\ UNCHANGED loaded

Load(i, m) ==
  /\ Alive(i)
  /\ m \notin loaded[i]
  /\ m = "GameAssembly" => i \in Il2Cpp /\ "UnityPlayer" \in loaded[i]
  /\ loaded' = [loaded EXCEPT ![i] = @ \cup {m}]
  /\ UNCHANGED <<host, pidOf>>

Exit(i) ==
  /\ Alive(i)
  /\ host' = [host EXCEPT ![pidOf[i]] = None]
  /\ UNCHANGED <<pidOf, loaded>>

(***************************************************************************)
(* What asking process id p for module m can answer.  A snapshot may fail  *)
(* at any time (ERROR_BAD_LENGTH while the process loads modules).         *)
(***************************************************************************)
Has(p, m) == host[p] # None /\ m \in loaded[host[p]]

Snapshot(p, m) == {None} \cup {i \in {host[p]} : Has(p, m)}

OsTypeOK ==
  /\ host \in [Pids -> Instances \cup {None}]
  /\ pidOf \in [Instances -> Pids \cup {0}]
  /\ loaded \in [Instances -> SUBSET Modules]
===============================================================================
