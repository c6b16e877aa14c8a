-------------------------------- MODULE SignIn --------------------------------
(***************************************************************************)
(* The limits on signing in (services/auth.py): failed attempts counted    *)
(* per client in the process, a few password checks at a time, and the     *)
(* lockout of the account in the database. One account stands for all; an  *)
(* attempt on another e-mail finds none. The session that a sign-in        *)
(* creates is in Accounts.                                                 *)
(***************************************************************************)
EXTENDS Integers, Sequences, FiniteSets

CONSTANTS
    Clients,       \* addresses attempts come from
    Attempts,      \* attempts that overlap
    MaxTracked,    \* _MAX_TRACKED_LOGIN_CLIENTS
    Slots,         \* _PASSWORD_CHECK_SLOTS
    ClientLimit,   \* login_ip_max_failed_attempts
    FailureLimit,  \* login_max_failed_attempts
    Window,        \* login_failure_window_seconds
    Lockout,       \* login_lockout_seconds
    MaxClock,      \* bound on the clock
    NoAttempt

VARIABLES
    table,     \* _login_attempts: entries in the order they were inserted
    free,      \* slots of the semaphore
    attempts,  \* attempts in progress
    account,   \* the failure columns of the User row
    clock,
    guesses,   \* history: times of the wrong passwords since the last sign-in
    charged    \* history, by client: failures and late releases of its present window

signInVars == <<table, free, attempts, account, clock, guesses, charged>>

None == 0  \* a time that is not set

Entry == [client : Clients, start : 1..MaxClock, count : 0..ClientLimit]

\* present: reserved in the window its client has now.
Attempt == [client : Clients, known : BOOLEAN, right : BOOLEAN,
            phase : {"waiting", "checking"}, present : BOOLEAN]

ASSUME SignInConstants ==
    /\ IsFiniteSet(Attempts)
    /\ NoAttempt \notin Attempt
    /\ {MaxTracked, Slots, ClientLimit, FailureLimit, Window, Lockout, MaxClock} \subseteq Nat \ {0}

SignInTypeOK ==
    /\ table \in Seq(Entry) /\ Len(table) <= MaxTracked
    /\ attempts \in [Attempts -> Attempt \union {NoAttempt}]
    /\ account \in [active : BOOLEAN, failed : 0..FailureLimit, windowStart : 0..MaxClock,
                    lockedUntil : 0..MaxClock + Lockout]
    /\ clock \in 1..MaxClock

Uncharged == [failures |-> 0, late |-> 0]

SignInInit ==
    /\ table = <<>>
    /\ free = Slots
    /\ attempts = [a \in Attempts |-> NoAttempt]
    /\ account = [active |-> TRUE, failed |-> 0, windowStart |-> None, lockedUntil |-> None]
    /\ clock = 1
    /\ guesses = <<>>
    /\ charged = [c \in Clients |-> Uncharged]

-------------------------------------------------------------------------------
(* The table of clients.                                                   *)

Places(c) == {i \in DOMAIN table : table[i].client = c}

Expired(entry) == clock - entry.start >= Window

\* An entry in its window, or a new one.
Current(c) ==
    IF \E i \in Places(c) : ~ Expired(table[i])
    THEN table[CHOOSE i \in Places(c) : TRUE]
    ELSE [client |-> c, start |-> clock, count |-> 0]

\* The entries at some places, in their order.
At(places) ==
    [k \in 1..Cardinality(places) |->
        table[CHOOSE i \in places : Cardinality({j \in places : j <= i}) = k]]

\* Room for a client: the expired entries go when the table is full, then the oldest.
WithRoom(c) ==
    LET alive == At({i \in DOMAIN table : ~ Expired(table[i])})
    IN IF Places(c) # {} \/ Len(table) < MaxTracked THEN table
       ELSE IF Len(alive) < MaxTracked THEN alive ELSE Tail(alive)

\* The dictionary keeps the place of a key it has.
Stored(entry, entries) ==
    IF \E i \in DOMAIN entries : entries[i].client = entry.client
    THEN [i \in DOMAIN entries |-> IF entries[i].client = entry.client THEN entry ELSE entries[i]]
    ELSE Append(entries, entry)

\* Clients whose window ends with this reservation: c, when its window is new, and
\* those without an entry any more.
Restarted(c) ==
    {d \in Clients : IF d = c THEN \A i \in Places(c) : Expired(table[i])
                     ELSE \A i \in DOMAIN WithRoom(c) : WithRoom(c)[i].client # d}

\* _reserve_login_attempt: the attempt counts as failed until it succeeds.
Reserve(a) ==
    /\ attempts[a] = NoAttempt
    /\ \E c \in Clients, known \in BOOLEAN, right \in BOOLEAN :
          /\ right => known
          /\ Current(c).count < ClientLimit
          /\ table' = Stored([Current(c) EXCEPT !.count = @ + 1], WithRoom(c))
          /\ attempts' =
                [b \in Attempts |->
                    IF b = a THEN [client |-> c, known |-> known, right |-> right,
                                   phase |-> "waiting", present |-> TRUE]
                    ELSE IF attempts[b] # NoAttempt /\ attempts[b].client \in Restarted(c)
                         THEN [attempts[b] EXCEPT !.present = FALSE]
                         ELSE attempts[b]]
          /\ charged' = [d \in Clients |-> IF d \in Restarted(c) THEN Uncharged ELSE charged[d]]
    /\ UNCHANGED <<free, account, clock, guesses>>

\* Mutant: an attempt that ends in an error is not given back.
KeepCharge(a) == UNCHANGED <<table, charged>>

\* _release_login_attempt gives back to whatever window the client has now.
Release(a) ==
    LET c == attempts[a].client
        counted == {i \in Places(c) : table[i].count > 0}
    IN /\ table' = [i \in DOMAIN table |-> IF i \in counted THEN [table[i] EXCEPT !.count = @ - 1]
                                           ELSE table[i]]
       /\ charged' = IF counted # {} /\ ~ attempts[a].present
                     THEN [charged EXCEPT ![c].late = @ + 1] ELSE charged

\* Mutant: every answer gives the attempt back.
ChargeNothing(a) ==
    LET c == attempts[a].client
    IN /\ table' = [i \in DOMAIN table |->
                       IF i \in Places(c) /\ table[i].count > 0
                       THEN [table[i] EXCEPT !.count = @ - 1] ELSE table[i]]
       /\ charged' = IF attempts[a].present THEN [charged EXCEPT ![c].failures = @ + 1] ELSE charged

\* A failure stays counted.
Charge(a) ==
    /\ charged' = IF attempts[a].present
                  THEN [charged EXCEPT ![attempts[a].client].failures = @ + 1] ELSE charged
    /\ UNCHANGED table

-------------------------------------------------------------------------------
(* password_check_slot.                                                    *)

Acquire(a) ==
    /\ attempts[a] # NoAttempt /\ attempts[a].phase = "waiting"
    /\ free > 0
    /\ free' = free - 1
    /\ attempts' = [attempts EXCEPT ![a].phase = "checking"]
    /\ UNCHANGED <<table, account, clock, guesses, charged>>

\* Mutant: the slot is freed only when the account was written.
LeaveByAnswer(a) ==
    /\ attempts' = [attempts EXCEPT ![a] = NoAttempt]
    /\ free' = IF attempts[a].phase = "checking" /\ account' # account THEN free + 1 ELSE free

\* The attempt is over; a slot it holds is free again.
Leave(a) ==
    /\ attempts' = [attempts EXCEPT ![a] = NoAttempt]
    /\ free' = IF attempts[a].phase = "checking" THEN free + 1 ELSE free

\* No slot in time (503), a lost connection or an error of the database.
Fail(a) ==
    /\ attempts[a] # NoAttempt
    /\ Release(a)
    /\ UNCHANGED <<account, clock, guesses>>
    /\ Leave(a)

-------------------------------------------------------------------------------
(* _authenticate_user. The advisory lock of the e-mail and the row are     *)
(* held through the check, the clock is read under the first.              *)

Checks(a) == attempts[a] # NoAttempt /\ attempts[a].phase = "checking"

LockedOut == account.lockedUntil > clock

\* A lock whose time has passed is cleared before the password is looked at.
Unlocked ==
    IF account.lockedUntil = None THEN account
    ELSE [account EXCEPT !.failed = 0, !.windowStart = None, !.lockedUntil = None]

\* No account, one an administrator locked, or one that is locked out: the dummy
\* hash, the same answer, and no count.
Refuse(a) ==
    /\ Checks(a)
    /\ ~ attempts[a].known \/ ~ account.active \/ LockedOut
    /\ Charge(a)
    /\ UNCHANGED <<account, clock, guesses>>
    /\ Leave(a)

\* Mutant: the lock needs one failure more.
WrongedOnceMore ==
    LET open == Unlocked.windowStart # None /\ Unlocked.windowStart + Window > clock
        n == IF open THEN Unlocked.failed + 1 ELSE 1
    IN [Unlocked EXCEPT !.failed = IF n > FailureLimit THEN FailureLimit ELSE n,
                        !.windowStart = IF open THEN @ ELSE clock,
                        !.lockedUntil = IF n > FailureLimit THEN clock + Lockout ELSE @]

\* The account after a wrong password, counted in its open window or in a new one.
Wronged ==
    LET open == Unlocked.windowStart # None /\ Unlocked.windowStart + Window > clock
        n == IF open THEN Unlocked.failed + 1 ELSE 1
    IN [Unlocked EXCEPT !.failed = n,
                        !.windowStart = IF open THEN @ ELSE clock,
                        !.lockedUntil = IF n >= FailureLimit THEN clock + Lockout ELSE @]

Wrong(a) ==
    /\ Checks(a)
    /\ attempts[a].known /\ ~ attempts[a].right /\ account.active /\ ~ LockedOut
    /\ account' = Wronged
    /\ guesses' = Append(guesses, clock)
    /\ Charge(a)
    /\ UNCHANGED clock
    /\ Leave(a)

Right(a) ==
    /\ Checks(a)
    /\ attempts[a].right /\ account.active /\ ~ LockedOut
    /\ account' = [account EXCEPT !.failed = 0, !.windowStart = None, !.lockedUntil = None]
    /\ guesses' = <<>>
    /\ Release(a)
    /\ UNCHANGED clock
    /\ Leave(a)

\* update_user locks the account and unlocks it; the failure columns stay.
AdministratorTurns ==
    /\ account' = [account EXCEPT !.active = ~ @]
    /\ UNCHANGED <<table, free, attempts, clock, guesses, charged>>

Tick ==
    /\ clock < MaxClock
    /\ clock' = clock + 1
    /\ UNCHANGED <<table, free, attempts, account, guesses, charged>>

SignInNext ==
    \/ Tick
    \/ AdministratorTurns
    \/ \E a \in Attempts :
          \/ Reserve(a) \/ Acquire(a) \/ Fail(a)
          \/ Refuse(a) \/ Wrong(a) \/ Right(a)

SignInSpec == SignInInit /\ [][SignInNext]_signInVars

-------------------------------------------------------------------------------
(* Properties.                                                             *)

\* What the end of one window and the whole of the next allow: an unlocked window
\* has one failure less than the limit, and the first of them is its start.
TwoWindows == IF FailureLimit = 1 THEN 1 ELSE 2 * FailureLimit - 2

Stretch == IF Lockout < Window THEN Lockout ELSE Window

\* Between two sign-ins, no stretch of time as long as the window, or the lockout
\* when that is shorter, sees more wrong passwords tried against the account than
\* two windows allow, whatever clients they come from (auth.py:191).
GuessesAreLimited ==
    \A t \in 1..MaxClock :
        Cardinality({i \in DOMAIN guesses : guesses[i] \in t..t + Stretch - 1}) <= TwoWindows

\* A client fails no more often in one window than its limit; each late release,
\* of an attempt of an earlier window, gives it one more (auth.py:106).
FailuresAreLimited ==
    \A c \in Clients : charged[c].failures <= ClientLimit + charged[c].late

Pending(c) ==
    {a \in Attempts : attempts[a] # NoAttempt /\ attempts[a].client = c /\ attempts[a].present}

\* What a client is charged with are its failures and its attempts in progress: a
\* sign-in that succeeds, finds no slot or breaks off costs nothing (auth.py:142).
OnlyFailuresAreCharged ==
    \A i \in DOMAIN table :
        LET c == table[i].client
        IN table[i].count <= charged[c].failures + Cardinality(Pending(c))

\* Every slot is free or in use by an attempt (auth.py:91).
SlotsAreNeverLost ==
    free + Cardinality({a \in Attempts : Checks(a)}) = Slots

\* The throttle holds every client to its limit, charges failures only and gets
\* every slot back, whichever way an attempt ends (auth.py:106, auth.py:142,
\* auth.py:91).
ThrottleIsFair == FailuresAreLimited /\ OnlyFailuresAreCharged /\ SlotsAreNeverLost
===============================================================================
