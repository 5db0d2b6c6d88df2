------------------------------- MODULE MCLimits -------------------------------
(***************************************************************************)
(* Small instances of AdminLogin and SmsQuota for TLC: for the texts, two  *)
(* clients behind one address, each with a phone of its own.               *)
(*                                                                         *)
(* The two limits share no state, neither reads the other's, and so their  *)
(* product would add interleavings and no new behaviour of either.  One of *)
(* them stays as it begins while the other runs: every behaviour of each   *)
(* component is explored, next to the initial state of the other.          *)
(***************************************************************************)
EXTENDS AdminLogin, SmsQuota, TLC

MCKeys == {"ip", "phone1", "phone2"}
MCClients == {"c1", "c2"}
MCKeysOf == [c \in MCClients |->
               IF c = "c1" THEN <<"ip", "phone1">> ELSE <<"ip", "phone2">>]

LimitsInit == Init /\ QuotaInit

LimitsNext ==
  \/ QuotaInit /\ Next /\ UNCHANGED quotaVars
  \/ Init /\ QuotaNext /\ UNCHANGED vars

LimitsSpec == LimitsInit /\ [][LimitsNext]_<<vars, quotaVars>>

Symmetry ==
  Permutations(IPs) \cup Permutations(Attempts) \cup Permutations(Requests)
=============================================================================
