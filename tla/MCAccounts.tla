---------------------------- MODULE MCAccounts -----------------------------
EXTENDS Accounts, TLC
CONSTANTS admin, default, guest, t0, t1, r1, r2, r3, s1, s2
MCOps ==
  {[kind |-> "create_user", user |-> guest, admin |-> FALSE],
   [kind |-> "create_token", user |-> guest],
   [kind |-> "create_token", user |-> default],
   [kind |-> "revoke_token", token |-> t0],
   [kind |-> "revoke_token", token |-> t1],
   [kind |-> "set_user_disabled", user |-> admin, disabled |-> TRUE],
   [kind |-> "set_user_disabled", user |-> admin, disabled |-> FALSE],
   [kind |-> "set_user_disabled", user |-> guest, disabled |-> TRUE],
   [kind |-> "put_snapshot"]}
Symmetry == Permutations(Requests)
=============================================================================
