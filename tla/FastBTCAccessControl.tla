------------------------ MODULE FastBTCAccessControl ------------------------
(***************************************************************************)
(* FastBTCAccessControl.sol: who holds which role, and when a list of      *)
(* federator signatures authorises a batch update.                         *)
(*                                                                         *)
(* A signature is represented by the address that ECDSA.recover yields for *)
(* the message at hand: ZeroAddress for a malformed one, an arbitrary      *)
(* account for a signature of something else or by somebody else.          *)
(***************************************************************************)
EXTENDS Naturals, FiniteSets, Sequences

CONSTANTS
    Accounts,      \* RSK accounts other than the zero address
    ZeroAddress,   \* address(0)
    Deployer,      \* msg.sender of the constructor
    SignatureLists \* the lists of signatures that callers submit

ASSUME AccountsAssumption ==
    /\ IsFiniteSet(Accounts)
    /\ ZeroAddress \notin Accounts
    /\ Deployer \in Accounts
    /\ SignatureLists \subseteq Seq(Accounts \cup {ZeroAddress})

Addresses == Accounts \cup {ZeroAddress}

Roles == {"ADMIN", "FEDERATOR", "PAUSER", "GUARD", "CONFIG_ADMIN"}

VARIABLE roleMembers   \* roleMembers[role]: the accounts that hold it

-----------------------------------------------------------------------------
HasRole(role, account) == account \in roleMembers[role]

CheckAdmin(account) == HasRole("ADMIN", account)
CheckPauser(account) == CheckAdmin(account) \/ HasRole("PAUSER", account)
CheckGuard(account) == CheckAdmin(account) \/ HasRole("GUARD", account)
CheckConfigAdmin(account) ==
    CheckAdmin(account) \/ HasRole("CONFIG_ADMIN", account)
CheckFederator(account) == HasRole("FEDERATOR", account)

Federators == roleMembers["FEDERATOR"]

\* Wrong: half of the federators is no majority.
HalfOfTheFederators == (Cardinality(Federators) + 1) \div 2

\* A strict majority of the federators.
NumRequiredFederators == Cardinality(Federators) \div 2 + 1

\* Enough signatures, every one of them by a federator, no federator twice.
CheckFederatorSignatures(signatures) ==
    /\ Len(signatures) >= NumRequiredFederators
    /\ \A i \in DOMAIN signatures : CheckFederator(signatures[i])
    /\ \A i, j \in DOMAIN signatures :
          i # j => signatures[i] # signatures[j]

-----------------------------------------------------------------------------
AccessControlInit ==
    roleMembers = [role \in Roles |-> IF role = "ADMIN" THEN {Deployer} ELSE {}]

\* Wrong: the zero address is accepted.
GrantRoleToAnybody(caller, role, account) ==
    /\ CheckAdmin(caller)
    /\ roleMembers' = [roleMembers EXCEPT ![role] = @ \cup {account}]

\* grantRole, and the add* functions that call it.
GrantRole(caller, role, account) ==
    /\ account # ZeroAddress
    /\ CheckAdmin(caller)
    /\ roleMembers' = [roleMembers EXCEPT ![role] = @ \cup {account}]

\* revokeRole of OpenZeppelin, and the remove* functions that call it.
RevokeRole(caller, role, account) ==
    /\ CheckAdmin(caller)
    /\ roleMembers' = [roleMembers EXCEPT ![role] = @ \ {account}]

\* renounceRole of OpenZeppelin: an account may always drop its own role.
RenounceRole(caller, role) ==
    roleMembers' = [roleMembers EXCEPT ![role] = @ \ {caller}]

AccessControlNext ==
    \E caller \in Accounts, role \in Roles :
        \/ \E account \in Addresses :
              \/ GrantRole(caller, role, account)
              \/ RevokeRole(caller, role, account)
        \/ RenounceRole(caller, role)

AccessControlSpec ==
    AccessControlInit /\ [][AccessControlNext]_roleMembers

-----------------------------------------------------------------------------
\* Type invariant. The zero address holds no role, so a signature that fails
\* to recover never counts.
AccessControlTypeOK == roleMembers \in [Roles -> SUBSET Accounts]

\* Any two lists that checkFederatorSignatures accepts under the same roles
\* have a federator in common: two disjoint groups of federators can never
\* approve conflicting updates.
MajoritiesIntersect ==
    \A s, t \in SignatureLists :
        CheckFederatorSignatures(s) /\ CheckFederatorSignatures(t)
            => \E i \in DOMAIN s, j \in DOMAIN t : s[i] = t[j]
=============================================================================
