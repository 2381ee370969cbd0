---------------------------- MODULE PairingTable ----------------------------
(***************************************************************************)
(* What an accessory promises about who controls it, without keys,         *)
(* sessions or transports: the first owner is an admin, only an admin      *)
(* changes who has access, and nobody keeps access when the last admin is  *)
(* gone, whatever happens in between.  Pairings implements it.             *)
(***************************************************************************)

CONSTANT Controllers

VARIABLE access     \* what each controller may do, persistent

Access == {"none", "user", "admin"}

Nobody == [c \in Controllers |-> "none"]

Admins(a) == {c \in Controllers : a[c] = "admin"}

\* Without an admin, nobody has access.
Kept(a) == IF Admins(a) = {} THEN Nobody ELSE a

Init == access = Nobody

\* The accessory is set up by its owner.
Own(c) ==
    /\ access = Nobody
    /\ access' = [access EXCEPT ![c] = "admin"]

\* An admin lets in a controller, or changes what it may do.
Grant(c, a) ==
    /\ Admins(access) # {}
    /\ access' = Kept([access EXCEPT ![c] = a])

\* An admin removes a controller.
Revoke(c) ==
    /\ Admins(access) # {}
    /\ access' = Kept([access EXCEPT ![c] = "none"])

Next ==
    \E c \in Controllers :
        \/ Own(c)
        \/ \E a \in Access \ {"none"} : Grant(c, a)
        \/ Revoke(c)

Spec == Init /\ [][Next]_access

=============================================================================
