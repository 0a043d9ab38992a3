------------------------------ MODULE Accounts ------------------------------
(***************************************************************************)
(* Logging in and administering accounts (app/login_guard.py, auth.py,     *)
(* auth_users.py, main.py:login_submit, routes/admin_users.py).  Requests  *)
(* run in threads: between the look at the lock and the count of a wrong   *)
(* password lies the hash of the password, and between counting the admins *)
(* and deleting one lies a database call, so each is two steps.            *)
(*                                                                         *)
(* `failed` and `overlapped` are history: when wrong passwords were        *)
(* answered since the last success, and whether two deletions of admins    *)
(* were ever under way at once.                                            *)
(***************************************************************************)
EXTENDS Integers, Sequences, FiniteSets

CONSTANTS
    User,
    Boss,               \* the users who are admins at first
    Attempt,            \* request threads of one address
    WINDOW_S, LOCKOUT_S, MAX_FAILS,
    MaxClock            \* bound: the clock stops here

\* A lock lasts no shorter than the window (login_guard.py has 300 s for both).
ASSUME AccountsAssumption ==
    /\ IsFiniteSet(User) /\ Boss \subseteq User /\ Boss # {}
    /\ IsFiniteSet(Attempt)
    /\ WINDOW_S \in Nat /\ LOCKOUT_S \in Nat /\ WINDOW_S <= LOCKOUT_S
    /\ MAX_FAILS \in Nat \ {0} /\ MaxClock \in Nat

VARIABLES
    clock,
    fails,              \* login_guard._fails of the address: a sequence of times
    locked,             \* login_guard._locked_until of the address
    account,            \* users: [User -> role], "none" where there is no row
    request,            \* [Attempt -> what the thread is doing]
    failed,
    overlapped

accountVars == <<clock, fails, locked, account, request, failed, overlapped>>

Never == -1
Waiting == [op |-> "none"]
Admins == {u \in User : account[u] = "admin"}

-----------------------------------------------------------------------------
locked_seconds == IF locked = Never THEN 0
                  ELSE IF locked - clock <= 0 THEN 0 ELSE locked - clock

\* Failures still counted at `now`: the oldest are dropped up to the first
\* that is not more than a window old.
Expired(dq, now) ==
    CHOOSE k \in 0 .. Len(dq) :
        /\ \A i \in 1 .. k : now - dq[i] > WINDOW_S
        /\ k < Len(dq) => now - dq[k + 1] <= WINDOW_S
Recent(dq, now) == SubSeq(dq, Expired(dq, now) + 1, Len(dq))

\* login_submit up to the password: a locked address is refused, and an
\* expired lock is forgotten.
LoginStart(r) ==
    /\ request[r] = Waiting
    /\ locked_seconds = 0
    /\ locked' = Never
    /\ request' = [request EXCEPT ![r] = [op |-> "login"]]
    /\ UNCHANGED <<clock, fails, account, failed, overlapped>>

\* record_failure.  Mutant: one failure more is let through.
FailureOneMore ==
    LET dq == Recent(Append(fails, clock), clock) IN
    IF Len(dq) > MAX_FAILS THEN fails' = <<>> /\ locked' = clock + LOCKOUT_S
                           ELSE fails' = dq /\ UNCHANGED locked
record_failure ==
    LET dq == Recent(Append(fails, clock), clock) IN
    IF Len(dq) >= MAX_FAILS THEN fails' = <<>> /\ locked' = clock + LOCKOUT_S
                            ELSE fails' = dq /\ UNCHANGED locked

LoginWrong(r) ==
    /\ request[r].op = "login"
    /\ record_failure
    /\ failed' = Append(failed, clock)
    /\ request' = [request EXCEPT ![r] = Waiting]
    /\ UNCHANGED <<clock, account, overlapped>>

\* The right password of a user who still has an account clears the count
\* and the lock.
LoginRight(r) ==
    /\ request[r].op = "login" /\ \E u \in User : account[u] # "none"
    /\ fails' = <<>> /\ locked' = Never /\ failed' = <<>>
    /\ request' = [request EXCEPT ![r] = Waiting]
    /\ UNCHANGED <<clock, account, overlapped>>

-----------------------------------------------------------------------------
\* create_user: a name already taken is refused.
CreateUser(u, role) ==
    /\ account[u] = "none"
    /\ account' = [account EXCEPT ![u] = role]
    /\ UNCHANGED <<clock, fails, locked, request, failed, overlapped>>

\* users_delete: nobody deletes himself, nor the last admin.  The role of
\* who asks is the one in the cookie, so an admin deleted meanwhile still
\* may.
MayDelete(actor, u) ==
    /\ u # actor /\ account[u] # "none"
    /\ account[u] = "admin" => Cardinality(Admins) > 1

DeleteCheck(r, actor, u) ==
    /\ request[r] = Waiting /\ MayDelete(actor, u)
    /\ request' = [request EXCEPT ![r] = [op |-> "delete", user |-> u]]
    /\ overlapped' = (overlapped \/ \E s \in Attempt : request[s].op = "delete")
    /\ UNCHANGED <<clock, fails, locked, account, failed>>

DeleteCommit(r) ==
    /\ request[r].op = "delete"
    /\ account' = [account EXCEPT ![request[r].user] = "none"]
    /\ request' = [request EXCEPT ![r] = Waiting]
    /\ UNCHANGED <<clock, fails, locked, failed, overlapped>>

Tick ==
    /\ clock < MaxClock
    /\ clock' = clock + 1
    /\ UNCHANGED <<fails, locked, account, request, failed, overlapped>>

AccountsInit ==
    /\ clock = 0 /\ fails = <<>> /\ locked = Never
    /\ account = [u \in User |-> IF u \in Boss THEN "admin" ELSE "none"]
    /\ request = [r \in Attempt |-> Waiting]
    /\ failed = <<>> /\ overlapped = FALSE

AccountsNext ==
    \/ \E r \in Attempt :
          \/ LoginStart(r) \/ LoginWrong(r) \/ LoginRight(r)
          \/ \E a \in Boss, u \in User : DeleteCheck(r, a, u)
          \/ DeleteCommit(r)
    \/ \E u \in User, role \in {"admin", "officer"} : CreateUser(u, role)
    \/ Tick

-----------------------------------------------------------------------------
AccountsTypeOK ==
    /\ clock \in 0 .. MaxClock /\ locked \in {Never} \cup 0 .. MaxClock + LOCKOUT_S
    /\ Len(fails) < MAX_FAILS
    /\ account \in [User -> {"none", "admin", "officer"}]
    /\ overlapped \in BOOLEAN

\* In less than a window no more wrong passwords are answered than the
\* threshold and the requests that were already past the lock.
GuessesBounded ==
    \A i \in 1 .. Len(failed) :
        Cardinality({j \in i .. Len(failed) : failed[j] - failed[i] < WINDOW_S})
            <= MAX_FAILS + Cardinality(Attempt) - 1

\* An address is locked only for as many wrong passwords as the threshold,
\* none of them more than a window before the lock began and none before a
\* success.
LockedForCause ==
    locked # Never =>
        Cardinality({i \in 1 .. Len(failed) :
            LET since == locked - LOCKOUT_S
            IN  since - WINDOW_S <= failed[i] /\ failed[i] <= since}) >= MAX_FAILS

\* However requests overlap, the sliding window, the threshold and the end of
\* the lock leave no gap where they meet, for guesses or against an honest
\* visitor (app/login_guard.py:40).
LockIsFair == GuessesBounded /\ LockedForCause

\* Unless two deletions overlapped, somebody can always administer, though a
\* deleted admin's cookie keeps its role.
AdminLeft == ~overlapped => Admins # {}

\* Neither the login guard nor the accounts page locks everybody out, or
\* lets guesses through: the sliding window, the threshold and the lock
\* leave no gap where they meet (login_guard.py), and unless two deletions
\* overlapped some administrator is left (routes/admin_users.py).
NobodyLockedOut == LockIsFair /\ AdminLeft

=============================================================================
