---------------------------- MODULE MCAddressBook ----------------------------
(* A small instance of AddressBook with colliding hashes.                   *)
EXTENDS AddressBook

EndpointIndex == [e1 |-> 0, e2 |-> 1, e3 |-> 2]
AddressIndex == [a1 |-> 0, a2 |-> 1]
KeyIndex == [k1 |-> 0, k2 |-> 1]

MCEndpoints == DOMAIN EndpointIndex
MCAddresses == DOMAIN AddressIndex
MCKeys == DOMAIN KeyIndex
OneKey == {"k1"}

\* e2 and e3 share an address.
MCAddressOf == [e \in Endpoints |-> IF e = "e1" THEN "a1" ELSE "a2"]

MCNewSlots == 0..2
MCTriedSlots == 0..1

\* Every endpoint can be referenced from two slots, and every slot is wanted
\* by several endpoints.
MCNewHash ==
  [x \in Keys \X Endpoints \X MCAddresses |->
    (EndpointIndex[x[2]] + AddressIndex[x[3]] + KeyIndex[x[1]]) % 3]

\* e1 and e3 want the same tried slot.
MCTriedHash ==
  [x \in Keys \X Endpoints |-> (EndpointIndex[x[2]] + KeyIndex[x[1]]) % 2]

\* One life of the process, from an empty database and without saving.
OneLife == Init /\ [][Load \/ BookNext]_vars
=============================================================================
