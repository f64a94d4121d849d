---------------------------- MODULE MCLoginQueue ----------------------------
(***************************************************************************)
(* LoginQueue for TLC: the number of connections is bounded, and of states *)
(* that differ only in names one is enough.  SYMMETRY would not do beside a *)
(* liveness property, so Connect picks the names.                          *)
(***************************************************************************)
EXTENDS LoginQueue

CONSTANT MaxConnects    \* connections made in a behaviour

ASSUME MaxConnectsAssumption == MaxConnects \in Nat

VARIABLES
    connects,   \* connections made so far
    known       \* accounts that have connected

mcVars == <<vars, connects, known>>

MCInit == Init /\ connects = 0 /\ known = {}

\* One connection attempt; the bound ends the behaviour's supply of clients.  The
\* players are numbers and connect in their order the first time, and a session
\* gets the first address at which none lives.
Connect(a) ==
    /\ connects < MaxConnects
    /\ connects' = connects + 1
    /\ a \notin Staff => \A b \in Account \ Staff : b < a => b \in known
    /\ known' = known \union {a}
    /\ Session # Live
    /\ AddSession(CHOOSE s \in Session : s \notin Live, a)

MCNext ==
    \/ \E a \in Account : Connect(a)
    \/ /\ \/ \E s \in Session : CloseSocket(s)
          \/ UpdateSessions
          \/ Command
          \/ Stopped
       /\ UNCHANGED <<connects, known>>

MCSpec == MCInit /\ [][MCNext]_mcVars

\* The world thread keeps ticking: WorldRunnable::run loops until it stops.  This is
\* WF_mcVars(UpdateSessions), whose steps are possible in every phase but "stopped".
MCFairSpec ==
    MCSpec /\ ([]<>(phase = "stopped") \/ []<><<UpdateSessions>>_mcVars)
=============================================================================
