--------------------------------- MODULE Otp ---------------------------------
(***************************************************************************)
(* The one-time codes of AccountService (apps/accounts/services.py):       *)
(* generate_otp and verify_otp for one phone.  The code and the count of   *)
(* wrong attempts are two keys of the cache, written and read one after    *)
(* the other, each with a lifetime of its own.                             *)
(*                                                                         *)
(* Codes are numbered in the order they are issued; 0 is no code.          *)
(***************************************************************************)
EXTENDS Integers, FiniteSets, WebServer

CONSTANTS
  MaxCodes,     \* bound: codes that are issued
  MaxGuesses,   \* bound: wrong guesses after which no more call begins
  MaxCrashes    \* bound: workers that die in the middle of a call

OTP_MAX_ATTEMPTS == 3
Missing == -1   \* the counter does not exist

ASSUME OtpAssumption ==
  MaxCodes \in Nat /\ MaxGuesses \in Nat /\ MaxCrashes \in Nat

VARIABLES
  \* the cache, and the newest code there was when the counter was set
  code, attempts, since,
  \* the worker processes: where they are, the code they read, the guess
  otpPc, sawCode, guess,
  \* history: codes issued; per code, calls of verify_otp that returned True; wrong
  \* guesses that were compared since the counter was set last
  issued, accepted, guesses,
  \* bound
  crashes

cache == <<code, attempts, since>>
otpLocals == <<otpPc, sawCode, guess>>
history == <<issued, accepted, guesses>>
otpVars == <<cache, otpLocals, history, crashes>>

OtpTypeOK ==
  /\ code \in 0..issued
  /\ attempts \in Nat \cup {Missing}
  /\ since \in 0..issued
  /\ otpPc \in [Workers -> {"idle", "set_attempts", "get_attempts", "delete",
                            "incr", "delete_code", "delete_attempts"}]
  /\ sawCode \in [Workers -> 0..issued]
  /\ guess \in [Workers -> 0..issued]
  /\ issued \in 0..MaxCodes
  /\ accepted \in [1..MaxCodes -> Nat]
  /\ guesses \in Nat
  /\ crashes \in 0..MaxCrashes
  /\ \A w \in Workers :
       /\ otpPc[w] \in {"get_attempts", "delete_code", "delete_attempts"} =>
            sawCode[w] > 0
       /\ otpPc[w] \in {"delete_code", "delete_attempts"} => guess[w] = sawCode[w]

OtpInit ==
  /\ code = 0
  /\ attempts = Missing
  /\ since = 0
  /\ otpPc = [w \in Workers |-> "idle"]
  /\ sawCode = [w \in Workers |-> 0]
  /\ guess = [w \in Workers |-> 0]
  /\ issued = 0
  /\ accepted = [n \in 1..MaxCodes |-> 0]
  /\ guesses = 0
  /\ crashes = 0

-----------------------------------------------------------------------------
OtpLeave(w) ==
  /\ otpPc' = [otpPc EXCEPT ![w] = "idle"]
  /\ sawCode' = [sawCode EXCEPT ![w] = 0]
  /\ guess' = [guess EXCEPT ![w] = 0]

\* generate_otp: the code is stored...
GenerateOtp(w) ==
  /\ otpPc[w] = "idle"
  /\ issued < MaxCodes
  /\ issued' = issued + 1
  /\ code' = issued'
  /\ otpPc' = [otpPc EXCEPT ![w] = "set_attempts"]
  /\ UNCHANGED <<attempts, since, sawCode, guess, accepted, guesses, crashes>>

\* ... then the counter, at zero.
SetAttempts(w) ==
  /\ otpPc[w] = "set_attempts"
  /\ attempts' = 0
  /\ since' = issued
  /\ guesses' = 0
  /\ OtpLeave(w)
  /\ UNCHANGED <<code, issued, accepted, crashes>>

\* verify_otp: without a code the call is refused at once.
VerifyOtp(w, g) ==
  /\ otpPc[w] = "idle"
  /\ code # 0
  /\ guesses < MaxGuesses
  /\ otpPc' = [otpPc EXCEPT ![w] = "get_attempts"]
  /\ sawCode' = [sawCode EXCEPT ![w] = code]
  /\ guess' = [guess EXCEPT ![w] = g]
  /\ UNCHANGED <<cache, history, crashes>>

\* Mutation: one attempt more is allowed.
TooMany(count) == count > OTP_MAX_ATTEMPTS

UsedUp(count) == count >= OTP_MAX_ATTEMPTS

\* Mutation: the guess is compared with the code there is by now.
GetAttemptsReread(w) ==
  /\ otpPc[w] = "get_attempts"
  /\ otpPc' = [otpPc EXCEPT ![w] =
                 IF UsedUp(attempts) THEN "delete"
                 ELSE IF guess[w] = code THEN "delete_code" ELSE "incr"]
  /\ UNCHANGED <<cache, sawCode, guess, history, crashes>>

\* A missing counter counts as zero; the guess is compared with the code read.
GetAttempts(w) ==
  /\ otpPc[w] = "get_attempts"
  /\ otpPc' = [otpPc EXCEPT ![w] =
                 IF UsedUp(attempts) THEN "delete"
                 ELSE IF guess[w] = sawCode[w] THEN "delete_code" ELSE "incr"]
  /\ guesses' = IF ~UsedUp(attempts) /\ guess[w] # sawCode[w]
                THEN guesses + 1 ELSE guesses
  /\ UNCHANGED <<cache, sawCode, guess, issued, accepted, crashes>>

DeleteUsedUp(w) ==
  /\ otpPc[w] = "delete"
  /\ code' = 0
  /\ OtpLeave(w)
  /\ UNCHANGED <<attempts, since, history, crashes>>

\* incr of a missing counter raises, and nothing is counted.
IncrAttempts(w) ==
  /\ otpPc[w] = "incr"
  /\ attempts' = IF attempts = Missing THEN Missing ELSE attempts + 1
  /\ OtpLeave(w)
  /\ UNCHANGED <<code, since, history, crashes>>

DeleteCode(w) ==
  /\ otpPc[w] = "delete_code"
  /\ code' = 0
  /\ otpPc' = [otpPc EXCEPT ![w] = "delete_attempts"]
  /\ UNCHANGED <<attempts, since, sawCode, guess, history, crashes>>

DeleteAttempts(w) ==
  /\ otpPc[w] = "delete_attempts"
  /\ attempts' = Missing
  /\ accepted' = [accepted EXCEPT ![sawCode[w]] = @ + 1]
  /\ OtpLeave(w)
  /\ UNCHANGED <<code, since, issued, guesses, crashes>>

\* OTP_TTL_SECONDS after it was stored a key is gone: a counter outlives the codes
\* stored before it.
Expire ==
  /\ \/ code' = 0 /\ UNCHANGED attempts
     \/ (code = 0 \/ code > since) /\ attempts' = Missing /\ UNCHANGED code
  /\ UNCHANGED <<since, otpLocals, history, crashes>>

OtpCrash(w) ==
  /\ otpPc[w] # "idle"
  /\ crashes < MaxCrashes
  /\ crashes' = crashes + 1
  /\ OtpLeave(w)
  /\ UNCHANGED <<cache, history>>

OtpNext ==
  \/ \E w \in Workers :
       \/ GenerateOtp(w)
       \/ SetAttempts(w)
       \/ \E g \in 0..issued : VerifyOtp(w, g)
       \/ GetAttempts(w)
       \/ DeleteUsedUp(w)
       \/ IncrAttempts(w)
       \/ DeleteCode(w)
       \/ DeleteAttempts(w)
       \/ OtpCrash(w)
  \/ Expire
-----------------------------------------------------------------------------
\* verify_otp "increments attempt counter" (42) in a call of its own (50, 56): guesses
\* in flight together exceed the maximum by no more than the other workers, and by the
\* guesses of workers that died before they counted.  This is so while there is a
\* counter; under a code without one (a death between 36 and 37, a counter older than
\* its code that expires, a call for an older code that ends) nothing is counted, and
\* the number of guesses has no bound.
GuessesBounded ==
  attempts # Missing =>
    guesses <= OTP_MAX_ATTEMPTS - 1 + Cardinality(Workers) + crashes

\* Call w has read code n and its guess is right; it waits for the counter, or was let
\* past it.
Waits(w, n) == otpPc[w] = "get_attempts" /\ sawCode[w] = n /\ guess[w] = n

LetPast(w, n) == otpPc[w] \in {"delete_code", "delete_attempts"} /\ sawCode[w] = n

\* The attempts are used up, no call is past the check or about to set or delete the
\* counter, and the counter does not expire under n.
ShutOut(n) ==
  /\ attempts >= OTP_MAX_ATTEMPTS
  /\ n = code => n <= since
  /\ \A w \in Workers : otpPc[w] \in {"idle", "get_attempts", "incr", "delete"}

\* Code n is not stored any more, and no call has it.
Gone(n) == n # code /\ \A w \in Workers : ~Waits(w, n) /\ ~LetPast(w, n)

\* A call is between its two reads (45, 50), and code n left the cache meanwhile.
Straggler(n) == n # code /\ \E w \in Workers : Waits(w, n)

\* A code that is locked out ("invalidates after max attempts", 42) is never accepted
\* again, whatever calls, deaths, lifetimes and newer codes follow.  The one way out the
\* code leaves is a straggler: it read the code while it was stored, and finds the
\* counter of a newer code, or none.
LockoutHolds ==
  [][\A n \in 1..issued :
       ShutOut(n) \/ Gone(n) =>
         /\ accepted'[n] = accepted[n]
         /\ ShutOut(n)' \/ Gone(n)' \/ Straggler(n)']_otpVars
=============================================================================
