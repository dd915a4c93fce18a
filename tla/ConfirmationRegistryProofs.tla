--------------------- MODULE ConfirmationRegistryProofs ---------------------
(***************************************************************************)
(* ConfirmationRegistry, for every set of tokens, commands and modes and    *)
(* every positive TTL: its inductive invariant, single use of a token, and  *)
(* the refinement of TokenLease.                                            *)
(*                                                                          *)
(* The argument: a grant needs an entry in _pending; StoreAgrees says such  *)
(* an entry belongs to a token that was never granted and carries the       *)
(* token's own deadline; Pruned keeps only entries whose deadline lies      *)
(* ahead; and redeem removes the entry in the step that grants it.          *)
(***************************************************************************)
EXTENDS ConfirmationRegistry, SequenceTheorems, TLAPS

(* What pruning returns: nothing new, and nothing that has expired. *)
LEMMA PrunedFacts ==
  ASSUME TypeOK
  PROVE  /\ Pruned \in [Token -> PendingConfirmation \cup {None}]
         /\ \A t \in Token : Pruned[t] # None =>
               Pruned[t] = pending[t] /\ pending[t] # None /\ now < pending[t].expires_at
  BY RegistryAssumption DEF Pruned, Expired, TypeOK, PendingConfirmation

(* Every reachable state is well typed: no registry method ever stores      *)
(* anything but a complete PendingConfirmation.                             *)
LEMMA TypeInductive == TypeOK /\ [RegistryNext]_registryVars => TypeOK'
<1> SUFFICES ASSUME TypeOK, [RegistryNext]_registryVars
             PROVE  TypeOK'
    OBVIOUS
<1> USE RegistryAssumption DEF TypeOK
<1>1. CASE Tick
  BY <1>1 DEF Tick
<1>2. ASSUME NEW t \in Token, NEW command \in Command, NEW mode \in Mode,
             Register(t, command, mode)
      PROVE  TypeOK'
  <2>1. now + TTL \in Nat
    OBVIOUS
  <2>2. [command |-> command, mode |-> mode, created_at |-> now, expires_at |-> now + TTL]
          \in PendingConfirmation
    BY <2>1 DEF PendingConfirmation
  <2>3. pending' \in [Token -> PendingConfirmation \cup {None}]
    BY <1>2, <2>2, PrunedFacts DEF Register
  <2>4. deadline' \in [Token -> Nat \cup {None}]
    BY <1>2, <2>1 DEF Register
  <2>5. QED
    BY <1>2, <2>3, <2>4 DEF Register
<1>3. ASSUME NEW t \in Token, Redeem(t)
      PROVE  TypeOK'
  <2>1. pending' \in [Token -> PendingConfirmation \cup {None}]
    BY <1>3, PrunedFacts DEF Redeem
  <2>2. now \in Nat
    OBVIOUS
  <2>3. Append(grants[t], now) \in Seq(Nat)
    BY <2>2
  <2>4. grants' \in [Token -> Seq(Nat)]
    BY <1>3, <2>3 DEF Redeem
  <2>5. QED
    BY <1>3, <2>1, <2>4 DEF Redeem
<1>4. ASSUME NEW t \in Token, Peek(t)
      PROVE  TypeOK'
  BY <1>4, PrunedFacts DEF Peek
<1>5. CASE UNCHANGED registryVars
  BY <1>5 DEF registryVars
<1>6. QED
  BY <1>1, <1>2, <1>3, <1>4, <1>5 DEF RegistryNext

(* The empty store is well typed. *)
LEMMA TypeInitially == RegistryInit => TypeOK
<1> SUFFICES ASSUME RegistryInit PROVE TypeOK
    OBVIOUS
<1>1. <<>> \in Seq(Nat)
  OBVIOUS
<1>2. QED
  BY <1>1, RegistryAssumption DEF RegistryInit, TypeOK

(* No sequence of registrations, redemptions and peeks corrupts the store.  *)
THEOREM RegistryTypeCorrect == RegistrySpec => []TypeOK
  BY TypeInitially, TypeInductive, PTL DEF RegistrySpec

-----------------------------------------------------------------------------

(* The inductive invariant. SingleUse alone is not one: a second grant is   *)
(* excluded only because an entry still in the store was never granted.     *)
IInv == TypeOK /\ StoreAgrees /\ SingleUse

(* The inductive invariant holds of the empty store ... *)
LEMMA IInvInitially == RegistryInit => IInv
  BY TypeInitially DEF RegistryInit, IInv, StoreAgrees, SingleUse

(* ... and every method of the registry keeps it. *)
LEMMA IInvInductive == IInv /\ [RegistryNext]_registryVars => IInv'
<1> SUFFICES ASSUME IInv, [RegistryNext]_registryVars
             PROVE  IInv'
    OBVIOUS
<1>0. TypeOK /\ TypeOK' /\ now \in Nat
  BY TypeInductive DEF IInv, TypeOK
<1>a. StoreAgrees /\ SingleUse
  BY DEF IInv
<1>1. CASE Tick
  BY <1>0, <1>a, <1>1, RegistryAssumption
     DEF Tick, IInv, TypeOK, StoreAgrees, SingleUse, PendingConfirmation
<1>2. ASSUME NEW t \in Token, NEW command \in Command, NEW mode \in Mode,
             Register(t, command, mode)
      PROVE  IInv'
  <2>1. \A s \in Token : s # t =>
          /\ pending'[s] # None => pending'[s] = pending[s] /\ pending[s] # None
          /\ deadline'[s] = deadline[s]
    BY <1>0, <1>2, PrunedFacts DEF Register, TypeOK
  <2>2. /\ pending'[t].expires_at = now + TTL
        /\ pending'[t].created_at = now
        /\ deadline'[t] = now + TTL
    BY <1>0, <1>2, PrunedFacts DEF Register, TypeOK
  <2>3. grants[t] = <<>>
    <3>1. \A i \in DOMAIN grants[t] : FALSE
      BY <1>a, <1>2 DEF SingleUse, Register
    <3>2. grants[t] \in Seq(Nat)
      BY <1>0 DEF TypeOK
    <3>3. DOMAIN grants[t] = 1..Len(grants[t]) /\ Len(grants[t]) \in Nat
      BY <3>2
    <3>4. Len(grants[t]) = 0
      <4>1. SUFFICES ASSUME Len(grants[t]) # 0 PROVE 1 \in DOMAIN grants[t]
        BY <3>1
      <4>2. QED
        BY <3>3, <4>1
    <3>5. QED
      BY <3>2, <3>4, EmptySeq
  <2>4. StoreAgrees'
    BY <1>0, <1>a, <1>2, <2>1, <2>2, <2>3 DEF StoreAgrees, Register
  <2>5. SingleUse'
    <3>1. grants' = grants
      BY <1>2 DEF Register
    <3>2. Len(<<>>) = 0 /\ DOMAIN <<>> = {}
      OBVIOUS
    <3>3. QED
      BY <1>a, <2>1, <2>3, <3>1, <3>2 DEF SingleUse
  <2>6. QED
    BY <1>0, <2>4, <2>5 DEF IInv
<1>3. ASSUME NEW t \in Token, Redeem(t)
      PROVE  IInv'
  <2>1. \A s \in Token : pending'[s] # None =>
          s # t /\ pending'[s] = pending[s] /\ pending[s] # None
    BY <1>0, <1>3, PrunedFacts DEF Redeem, TypeOK
  <2>2. \A s \in Token : s # t => grants'[s] = grants[s]
    BY <1>0, <1>3 DEF Redeem, TypeOK
  <2>3. StoreAgrees'
    BY <1>0, <1>a, <1>3, <2>1, <2>2 DEF StoreAgrees, Redeem
  <2>4. CASE Pruned[t] = None
    <3>1. grants' = grants /\ deadline' = deadline
      BY <1>3, <2>4 DEF Redeem
    <3>2. QED
      BY <1>0, <1>a, <2>3, <3>1 DEF IInv, SingleUse
  <2>5. CASE Pruned[t] # None
    <3>1. deadline[t] = pending[t].expires_at /\ grants[t] = <<>> /\ now < pending[t].expires_at
      BY <1>0, <1>a, <2>5, PrunedFacts DEF StoreAgrees
    <3>2. grants'[t] = <<now>>
      BY <1>0, <1>3, <2>5, <3>1 DEF Redeem, TypeOK
    <3>3. deadline[t] # None
      BY <1>0, <3>1, <2>5, PrunedFacts, RegistryAssumption DEF TypeOK, PendingConfirmation
    <3>4. deadline' = deadline
      BY <1>3 DEF Redeem
    <3>5. Len(<<now>>) = 1 /\ DOMAIN <<now>> = {1} /\ <<now>>[1] = now
      OBVIOUS
    <3>6. SingleUse'
      <4>1. Len(grants'[t]) <= 1 /\ \A i \in DOMAIN grants'[t] : i = 1
        BY <3>2, <3>5
      <4>2. grants'[t][1] < deadline'[t] /\ deadline'[t] # None
        BY <3>1, <3>2, <3>3, <3>4, <3>5
      <4>3. \A s \in Token : s # t => grants'[s] = grants[s] /\ deadline'[s] = deadline[s]
        BY <2>2, <3>4
      <4>4. QED
        BY <1>a, <4>1, <4>2, <4>3 DEF SingleUse
    <3>7. QED
      BY <1>0, <2>3, <3>6 DEF IInv
  <2>6. QED
    BY <2>4, <2>5
<1>4. ASSUME NEW t \in Token, Peek(t)
      PROVE  IInv'
  <2>1. \A s \in Token : pending'[s] # None => pending'[s] = pending[s] /\ pending[s] # None
    BY <1>0, <1>4, PrunedFacts DEF Peek
  <2>2. QED
    BY <1>0, <1>a, <1>4, <2>1 DEF IInv, StoreAgrees, SingleUse, Peek
<1>5. CASE UNCHANGED registryVars
  BY <1>0, <1>a, <1>5 DEF registryVars, IInv, StoreAgrees, SingleUse
<1>6. QED
  BY <1>1, <1>2, <1>3, <1>4, <1>5 DEF RegistryNext

(* A token is redeemed at most once and never at or after its deadline,     *)
(* however many tokens are live and whatever order the calls arrive in.     *)
THEOREM RegistrySingleUse == RegistrySpec => []SingleUse
<1>1. IInv => SingleUse
  BY DEF IInv
<1>2. QED
  BY <1>1, IInvInitially, IInvInductive, PTL DEF RegistrySpec

-----------------------------------------------------------------------------

(* A registry step is a lease step or leaves the lease unchanged. *)
LEMMA StepImplementsLease ==
  IInv /\ [RegistryNext]_registryVars => [Lease!Next]_(Lease!lease)
<1> SUFFICES ASSUME IInv, [RegistryNext]_registryVars
             PROVE  [Lease!Next]_(Lease!lease)
    OBVIOUS
<1>0. TypeOK /\ StoreAgrees
  BY DEF IInv
<1>1. CASE Tick
  BY <1>1 DEF Tick, Lease!Next, Lease!Advance
<1>2. ASSUME NEW t \in Token, NEW command \in Command, NEW mode \in Mode,
             Register(t, command, mode)
      PROVE  Lease!Next
  BY <1>2 DEF Register, Lease!Next, Lease!Issue
<1>3. ASSUME NEW t \in Token, Redeem(t)
      PROVE  [Lease!Next]_(Lease!lease)
  <2>1. CASE Pruned[t] = None
    BY <1>3, <2>1 DEF Redeem, Lease!lease
  <2>2. CASE Pruned[t] # None
    <3>1. deadline[t] = pending[t].expires_at /\ grants[t] = <<>> /\ now < pending[t].expires_at
      BY <1>0, <2>2, PrunedFacts DEF StoreAgrees
    <3>2. deadline[t] # None
      BY <1>0, <3>1, <2>2, PrunedFacts, RegistryAssumption DEF TypeOK, PendingConfirmation
    <3>3. Lease!Grant(t)
      BY <1>3, <2>2, <3>1, <3>2 DEF Redeem, Lease!Grant
    <3>4. QED
      BY <3>3 DEF Lease!Next
  <2>3. QED
    BY <2>1, <2>2
<1>4. ASSUME NEW t \in Token, Peek(t)
      PROVE  UNCHANGED Lease!lease
  BY <1>4 DEF Peek, Lease!lease
<1>5. CASE UNCHANGED registryVars
  BY <1>5 DEF registryVars, Lease!lease
<1>6. QED
  BY <1>1, <1>2, <1>3, <1>4, <1>5 DEF RegistryNext

(* The registry implements the abstract lease: lazy pruning and previews    *)
(* never let a token be issued twice, granted twice or granted too late.    *)
THEOREM RegistryImplementsLease == RegistrySpec => ImplementsLease
<1>1. RegistryInit => Lease!Init
  BY DEF RegistryInit, Lease!Init
<1>2. QED
  BY <1>1, IInvInitially, IInvInductive, StepImplementsLease, PTL
     DEF RegistrySpec, ImplementsLease, Lease!Spec

-----------------------------------------------------------------------------

(* A preview, a redemption of another token or a pruning never costs the    *)
(* operator a confirmation that is still valid, nor alters what it froze.   *)
LEMMA StepKeepsValid ==
  ASSUME IInv, [RegistryNext]_registryVars, NEW s \in Token, pending[s] # None,
         now < pending[s].expires_at, grants'[s] = grants[s]
  PROVE  pending'[s] = pending[s]
<1>0. TypeOK /\ StoreAgrees
  BY DEF IInv
<1>1. Pruned[s] = pending[s]
  <2>1. now \in Nat /\ pending[s].expires_at \in Nat
    BY <1>0, RegistryAssumption DEF TypeOK, PendingConfirmation
  <2>2. QED
    BY <2>1 DEF Pruned, Expired
<1>2. CASE Tick \/ UNCHANGED registryVars
  BY <1>2 DEF Tick, registryVars
<1>3. ASSUME NEW t \in Token, NEW command \in Command, NEW mode \in Mode,
             Register(t, command, mode)
      PROVE  pending'[s] = pending[s]
  <2>1. s # t
    BY <1>0, <1>3, RegistryAssumption DEF Register, StoreAgrees, TypeOK, PendingConfirmation
  <2>2. QED
    BY <1>0, <1>1, <1>3, <2>1, PrunedFacts DEF Register
<1>4. ASSUME NEW t \in Token, Redeem(t)
      PROVE  pending'[s] = pending[s]
  <2>1. s # t
    <3>1. SUFFICES ASSUME s = t PROVE FALSE
      OBVIOUS
    <3>2. grants[s] \in Seq(Nat) /\ now \in Nat
      BY <1>0 DEF TypeOK
    <3>3. grants'[s] = Append(grants[s], now)
      BY <1>0, <1>1, <1>4, <3>1 DEF Redeem, TypeOK
    <3>4. Len(Append(grants[s], now)) = Len(grants[s]) + 1 /\ Len(grants[s]) \in Nat
      BY <3>2
    <3>5. QED
      BY <3>3, <3>4
  <2>2. QED
    BY <1>0, <1>1, <1>4, <2>1, PrunedFacts DEF Redeem
<1>5. ASSUME NEW t \in Token, Peek(t)
      PROVE  pending'[s] = pending[s]
  BY <1>1, <1>5 DEF Peek
<1>6. QED
  BY <1>2, <1>3, <1>4, <1>5 DEF RegistryNext

(* security.py:90: peek does not consume, and only a token's own redemption *)
(* or its deadline takes its entry out of the store.                        *)
THEOREM RegistryValidUntilRedeemed == RegistrySpec => ValidUntilRedeemed
<1>1. IInv /\ [RegistryNext]_registryVars
        => [\A t \in Token :
              /\ pending[t] # None
              /\ now < pending[t].expires_at
              /\ grants'[t] = grants[t]
              => pending'[t] = pending[t]]_registryVars
  BY StepKeepsValid
<1>2. QED
  BY <1>1, IInvInitially, IInvInductive, PTL DEF RegistrySpec, ValidUntilRedeemed

=============================================================================
