------------------------------ MODULE MCLimits ------------------------------
(* The limits on a route and the sudo lockout, one of them in each          *)
(* behaviour: they share the counter backend, and no key. The callers of    *)
(* the route tried together: one anonymous client that changes its host and *)
(* forges a header, and two clients, each anonymous or as the user.         *)
EXTENDS RateLimit, Sudo, TLC

CONSTANTS n1, n2, h1, h2, r1, r2

ASSUME BlocksAndHosts == {n1, n2} \subseteq Clients /\ {h1, h2} \subseteq Hosts

Caller(block, host, user, claims) ==
    [from |-> [block |-> block, host |-> host], user |-> user, claims |-> claims]

OneClient == {Caller(n1, h1, Anonymous, <<>>), Caller(n1, h2, Anonymous, <<>>),
              Caller(n1, h1, Anonymous, <<Foreign>>)}

TwoClients == {Caller(b, h1, u, <<>>) : b \in {n1, n2}, u \in Users \cup {Anonymous}}

Mix(calls, callers, limiters, by_user) ==
    [calls |-> calls, callers |-> callers, limiters |-> limiters, by_user |-> by_user]

NoRoute == Mix({}, {}, {}, FALSE)

MCMixes ==
    { Mix({r1, r2}, OneClient, {"user"}, FALSE),
      Mix({r1, r2}, TwoClients, {"user"}, FALSE),
      Mix({r1, r2}, TwoClients, {"user"}, TRUE),
      Mix({r1, r2}, OneClient, {"ip"}, FALSE),
      Mix({r1}, TwoClients, {"ip", "user"}, TRUE),
      Mix(LockCalls, {}, {}, FALSE),
      NoRoute }

MCSymmetry == Permutations(LockCalls)

(* The side of a behaviour that stands still starts in one state.           *)
LimitsInit ==
    /\ Init /\ SudoInit
    /\ IF mix = NoRoute
         THEN backend = CHOOSE b \in Backends : TRUE
         ELSE /\ sess = CHOOSE f \in [Elevations -> Sessions] : TRUE
              /\ right = [c \in Elevations |-> TRUE]

LimitsNext ==
    \/ mix # NoRoute /\ Next /\ UNCHANGED sudoVars
    \/ mix = NoRoute /\ SudoNext /\ UNCHANGED vars

LimitsSpec == LimitsInit /\ [][LimitsNext]_<<vars, sudoVars>>
=============================================================================
