--------------------- MODULE FastBTCAccessControlProofs ---------------------
(***************************************************************************)
(* Proofs about FastBTCAccessControl: they hold for any set of accounts    *)
(* and any lists of signatures.                                            *)
(***************************************************************************)
EXTENDS FastBTCAccessControl, FiniteSetTheorems, TLAPS

\* The operations of the access control contract preserve its type invariant:
\* grantRole refuses the zero address, which thus never becomes a federator.
LEMMA RoleChangePreservesType ==
    ASSUME AccessControlTypeOK,
           NEW caller \in Accounts, NEW role \in Roles, NEW account \in Addresses,
           \/ GrantRole(caller, role, account)
           \/ RevokeRole(caller, role, account)
           \/ RenounceRole(caller, role)
    PROVE  AccessControlTypeOK'
<1>1. CASE GrantRole(caller, role, account)
  BY <1>1 DEF GrantRole, AccessControlTypeOK, Addresses
<1>2. CASE RevokeRole(caller, role, account)
  BY <1>2 DEF RevokeRole, AccessControlTypeOK
<1>3. CASE RenounceRole(caller, role)
  BY <1>3 DEF RenounceRole, AccessControlTypeOK
<1>4. QED
  BY <1>1, <1>2, <1>3

\* Type correctness of the roles.
THEOREM AccessControlTypeCorrect == AccessControlSpec => []AccessControlTypeOK
<1>1. AccessControlInit => AccessControlTypeOK
  BY AccountsAssumption DEF AccessControlInit, AccessControlTypeOK
<1>2. AccessControlTypeOK /\ [AccessControlNext]_roleMembers => AccessControlTypeOK'
  <2> SUFFICES ASSUME AccessControlTypeOK, [AccessControlNext]_roleMembers
               PROVE  AccessControlTypeOK'
    OBVIOUS
  <2>1. CASE AccessControlNext
    <3>1. PICK caller \in Accounts, role \in Roles :
             \/ \E account \in Addresses :
                   \/ GrantRole(caller, role, account)
                   \/ RevokeRole(caller, role, account)
             \/ RenounceRole(caller, role)
      BY <2>1 DEF AccessControlNext
    <3>2. QED
      BY <3>1, RoleChangePreservesType, AccountsAssumption DEF Addresses
  <2>2. CASE UNCHANGED roleMembers
    BY <2>2 DEF AccessControlTypeOK
  <2>3. QED
    BY <2>1, <2>2
<1>3. QED
  BY <1>1, <1>2, PTL DEF AccessControlSpec

-----------------------------------------------------------------------------
\* The accounts that signed a list accepted by checkFederatorSignatures are as
\* many as its signatures, because none occurs twice, and all federators.
LEMMA AcceptedSigners ==
    ASSUME NEW s \in Seq(Addresses), CheckFederatorSignatures(s)
    PROVE  LET signers == {s[i] : i \in DOMAIN s}
           IN  /\ signers \subseteq Federators
               /\ IsFiniteSet(signers)
               /\ Cardinality(signers) = Len(s)
<1> DEFINE signers == {s[i] : i \in DOMAIN s}
<1>1. signers \subseteq Federators
  BY DEF CheckFederatorSignatures, CheckFederator, HasRole, Federators
<1>2. /\ s \in [1 .. Len(s) -> signers]
      /\ Len(s) \in Nat
      /\ DOMAIN s = 1 .. Len(s)
  OBVIOUS
<1>3. s \in Bijection(1 .. Len(s), signers)
  <2>1. s \in Injection(1 .. Len(s), signers)
    BY <1>2 DEF CheckFederatorSignatures, Injection, IsInjective
  <2>2. s \in Surjection(1 .. Len(s), signers)
    BY <1>2 DEF Surjection
  <2>3. QED
    BY <2>1, <2>2 DEF Bijection
<1>4. /\ IsFiniteSet(1 .. Len(s))
      /\ Cardinality(1 .. Len(s)) = Len(s)
  BY <1>2, FS_Interval
<1>5. /\ IsFiniteSet(signers)
      /\ Cardinality(signers) = Len(s)
  BY <1>3, <1>4, FS_Bijection DEF ExistsBijection
<1>6. QED
  BY <1>1, <1>5

\* Two lists that checkFederatorSignatures accepts have a federator in common,
\* however many federators there are (numRequiredFederators is a majority).
LEMMA AcceptedListsIntersect ==
    ASSUME AccessControlTypeOK
    PROVE  MajoritiesIntersect
<1> SUFFICES ASSUME NEW s \in SignatureLists, NEW t \in SignatureLists,
                    CheckFederatorSignatures(s), CheckFederatorSignatures(t)
             PROVE  \E i \in DOMAIN s, j \in DOMAIN t : s[i] = t[j]
  BY DEF MajoritiesIntersect
<1> DEFINE S == {s[i] : i \in DOMAIN s}
           T == {t[j] : j \in DOMAIN t}
<1>1. s \in Seq(Addresses) /\ t \in Seq(Addresses)
  BY AccountsAssumption DEF Addresses
<1>2. /\ S \subseteq Federators /\ Cardinality(S) = Len(s)
      /\ T \subseteq Federators /\ Cardinality(T) = Len(t)
  BY <1>1, AcceptedSigners
<1>3. IsFiniteSet(Federators) /\ Cardinality(Federators) \in Nat
  <2>1. Federators \subseteq Accounts
    BY DEF AccessControlTypeOK, Federators, Roles
  <2>2. QED
    BY <2>1, AccountsAssumption, FS_Subset, FS_CardinalityType
<1>4. Len(s) \in Nat /\ Len(t) \in Nat
  BY <1>1
<1>5. /\ Len(s) >= Cardinality(Federators) \div 2 + 1
      /\ Len(t) >= Cardinality(Federators) \div 2 + 1
  BY DEF CheckFederatorSignatures, NumRequiredFederators
<1>6. Cardinality(S) + Cardinality(T) > Cardinality(Federators)
  BY <1>2, <1>3, <1>4, <1>5
<1>7. S \cap T # {}
  BY <1>2, <1>3, <1>6, FS_MajoritiesIntersect
<1>8. QED
  BY <1>7

\* Conflicting updates never both have a majority of the federators that hold
\* the role at the time.
THEOREM MajoritiesAlwaysIntersect == AccessControlSpec => []MajoritiesIntersect
<1>1. AccessControlTypeOK => MajoritiesIntersect
  BY AcceptedListsIntersect
<1>2. QED
  BY <1>1, AccessControlTypeCorrect, PTL
=============================================================================
