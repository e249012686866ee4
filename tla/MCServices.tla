----------------------------- MODULE MCServices -----------------------------
(***************************************************************************)
(* Four components that share nothing, in one state space: a behaviour is  *)
(* one of a single component, chosen at the start, while the others rest   *)
(* in their initial state.                                                 *)
(***************************************************************************)
EXTENDS AgentLesson, LiveAdmission, DeviceGrant, RpmGate, TLC

CONSTANT Parts

VARIABLE part

everything == <<part, vars, admissionVars, grantVars, gateVars>>

MCStarts == {<<1, 1>>, <<1, 2>>, <<1, 3>>, <<2, 1>>}
MCUserOf == [r \in MCStarts |-> r[1]]

ASSUME PartsAssumption == AdmissionAssumption /\ GrantAssumption /\ GateAssumption

Is(p) == part = p

\* One user with more requests than credentials, sent in order and at once.
OneUser ==
    /\ \A r \in Starts : Asked(r) => UserOf[r] = 1
    /\ \A n \in {2, 3} : Asked(<<1, n>>) => Asked(<<1, n - 1>>)
    /\ \A c \in Mints : mint[c].pc # "none" => stamp[ReqOf(c)] = mint[c].issued
\* Two users who compete and repeat their requests.
TwoUsers == \A r \in Starts : Asked(r) => r[2] = 1

AnyInit == part \in Parts /\ Init /\ AdmissionInit /\ GrantInit /\ GateInit

AnyNext ==
    \/ Is("agent") /\ Next /\ UNCHANGED <<part, admissionVars, grantVars, gateVars>>
    \/ Is("admission") /\ AdmissionNext /\ OneUser' /\ UNCHANGED <<part, vars, grantVars, gateVars>>
    \/ Is("contest") /\ AdmissionNext /\ TwoUsers' /\ UNCHANGED <<part, vars, grantVars, gateVars>>
    \/ Is("grant") /\ GrantNext /\ UNCHANGED <<part, vars, admissionVars, gateVars>>
    \/ Is("rate") /\ GateNext /\ UNCHANGED <<part, vars, admissionVars, grantVars>>

AnySpec == AnyInit /\ [][AnyNext]_everything

\* The run gives Requests and Deciders the same interchangeable values.
Symmetry == Permutations(Requests \cup Deciders)
==============================================================================
