--------------------------- MODULE IdentityProofs ---------------------------
(***************************************************************************)
(* Proofs about who is who: one-time codes, registrations and API keys,    *)
(* for every finite set of worker processes and every set of requests and  *)
(* keys, and the merchant a tab of the portal shows, for every number of   *)
(* tabs and logins.  Each service of the backend is shown to keep an       *)
(* invariant of its own; Identity runs one of them and leaves the others   *)
(* at their start.  PortalSession, which talks to the backend and shares   *)
(* no state with it, comes last.                                           *)
(***************************************************************************)
EXTENDS Identity, PortalSession, FiniteSetTheorems, TLAPS

-----------------------------------------------------------------------------
(* One-time codes *)

\* Calls that were let past the check of the attempts and have not counted theirs.
Counting == {w \in Workers : otpPc[w] = "incr"}

\* Every worker but those may have counted one attempt after the last that was let in.
Headroom ==
  attempts + Cardinality(Counting) <= OTP_MAX_ATTEMPTS - 1 + Cardinality(Workers)

LEMMA CountingFinite ==
  /\ IsFiniteSet(Counting)
  /\ Cardinality(Counting) \in Nat
  /\ Cardinality(Workers) \in Nat
  /\ Cardinality(Counting) <= Cardinality(Workers)
BY WorkersAssumption, FS_Subset, FS_CardinalityType, Counting \in SUBSET Workers
   DEF Counting

\* A guess that was compared is counted, or about to be, or its worker died.
GuessesCounted == attempts # Missing => guesses <= attempts + Cardinality(Counting) + crashes

OtpInv == OtpTypeOK /\ Headroom /\ GuessesCounted

LEMMA OtpInitInv == OtpInit => OtpInv
<1> SUFFICES ASSUME OtpInit PROVE OtpInv
  OBVIOUS
<1>1. OtpTypeOK
  BY OtpAssumption DEF OtpInit, OtpTypeOK, Missing
<1>2. Headroom
  BY CountingFinite DEF OtpInit, Headroom, Missing, OTP_MAX_ATTEMPTS
<1>3. QED
  BY <1>1, <1>2 DEF OtpInit, GuessesCounted, OtpInv

LEMMA OtpTypeNext == OtpTypeOK /\ OtpNext => OtpTypeOK'
<1> SUFFICES ASSUME OtpTypeOK, OtpNext PROVE OtpTypeOK'
  OBVIOUS
<1> USE OtpAssumption DEF OtpTypeOK, history, Missing
<1>1. ASSUME NEW w \in Workers, GenerateOtp(w) PROVE OtpTypeOK'
  BY <1>1 DEF GenerateOtp
<1>2. ASSUME NEW w \in Workers, SetAttempts(w) PROVE OtpTypeOK'
  BY <1>2 DEF SetAttempts, OtpLeave
<1>3. ASSUME NEW w \in Workers, NEW g \in 0..issued, VerifyOtp(w, g) PROVE OtpTypeOK'
  BY <1>3 DEF VerifyOtp, cache
<1>4. ASSUME NEW w \in Workers, GetAttempts(w) PROVE OtpTypeOK'
  <2>1. \E to \in {"delete", "delete_code", "incr"} :
          /\ otpPc' = [otpPc EXCEPT ![w] = to]
          /\ to = "delete_code" => guess[w] = sawCode[w]
    BY <1>4 DEF GetAttempts
  <2>2. QED
    BY <1>4, <2>1 DEF GetAttempts, cache
<1>5. ASSUME NEW w \in Workers, DeleteUsedUp(w) PROVE OtpTypeOK'
  BY <1>5 DEF DeleteUsedUp, OtpLeave
<1>6. ASSUME NEW w \in Workers, IncrAttempts(w) PROVE OtpTypeOK'
  BY <1>6 DEF IncrAttempts, OtpLeave
<1>7. ASSUME NEW w \in Workers, DeleteCode(w) PROVE OtpTypeOK'
  BY <1>7 DEF DeleteCode
<1>8. ASSUME NEW w \in Workers, DeleteAttempts(w) PROVE OtpTypeOK'
  BY <1>8 DEF DeleteAttempts, OtpLeave
<1>9. ASSUME NEW w \in Workers, OtpCrash(w) PROVE OtpTypeOK'
  BY <1>9 DEF OtpCrash, OtpLeave, cache
<1>10. CASE Expire
  BY <1>10 DEF Expire, otpLocals
<1>11. QED
  BY <1>1, <1>2, <1>3, <1>4, <1>5, <1>6, <1>7, <1>8, <1>9, <1>10 DEF OtpNext

\* Only calls that found fewer than three attempts count one more, each once.
LEMMA HeadroomNext == OtpTypeOK /\ Headroom /\ OtpNext => Headroom'
<1> SUFFICES ASSUME OtpTypeOK, Headroom, OtpNext PROVE Headroom'
  OBVIOUS
<1> USE DEF Headroom, OTP_MAX_ATTEMPTS, Missing
<1>1. /\ IsFiniteSet(Counting) /\ Cardinality(Counting) \in Nat
      /\ IsFiniteSet(Counting') /\ Cardinality(Counting') \in Nat
      /\ Cardinality(Counting) <= Cardinality(Workers)
      /\ Cardinality(Counting') <= Cardinality(Workers)
      /\ Cardinality(Workers) \in Nat
      /\ attempts \in Int /\ attempts' \in Int
  <2>1. Counting \subseteq Workers /\ Counting' \subseteq Workers
    BY DEF Counting
  <2>2. QED
    BY <2>1, WorkersAssumption, FS_Subset, FS_CardinalityType, OtpTypeNext
       DEF OtpTypeOK
<1>2. ASSUME attempts' <= 0 PROVE Headroom'
  BY <1>1, <1>2
<1>3. ASSUME attempts' = attempts, Counting' \subseteq Counting PROVE Headroom'
  <2>1. Cardinality(Counting') <= Cardinality(Counting)
    BY <1>1, <1>3, FS_Subset
  <2>2. QED
    BY <1>1, <1>3, <2>1
<1>4. ASSUME NEW w \in Workers, SetAttempts(w) \/ DeleteAttempts(w) PROVE Headroom'
  BY <1>2, <1>4 DEF SetAttempts, DeleteAttempts
<1>5. ASSUME NEW w \in Workers,
             \/ GenerateOtp(w) \/ DeleteUsedUp(w) \/ DeleteCode(w) \/ OtpCrash(w)
             \/ \E g \in 0..issued : VerifyOtp(w, g)
      PROVE  Headroom'
  <2>1. attempts' = attempts
    BY <1>5 DEF GenerateOtp, DeleteUsedUp, DeleteCode, OtpCrash, VerifyOtp, cache
  <2>2. Counting' \subseteq Counting
    BY <1>5 DEF GenerateOtp, DeleteUsedUp, DeleteCode, OtpCrash, VerifyOtp, OtpLeave,
                Counting, OtpTypeOK
  <2>3. QED
    BY <1>3, <2>1, <2>2
<1>6. ASSUME NEW w \in Workers, GetAttempts(w) PROVE Headroom'
  <2>1. attempts' = attempts
    BY <1>6 DEF GetAttempts, cache
  <2>2. CASE UsedUp(attempts)
    <3>1. Counting' \subseteq Counting
      BY <1>6, <2>2 DEF GetAttempts, Counting, OtpTypeOK
    <3>2. QED
      BY <1>3, <2>1, <3>1
  <2>3. CASE ~UsedUp(attempts)
    BY <1>1, <2>1, <2>3 DEF UsedUp
  <2>4. QED
    BY <2>2, <2>3
<1>7. ASSUME NEW w \in Workers, IncrAttempts(w) PROVE Headroom'
  <2>1. w \in Counting /\ Counting' = Counting \ {w}
    BY <1>7 DEF IncrAttempts, OtpLeave, Counting, OtpTypeOK
  <2>2. Cardinality(Counting') = Cardinality(Counting) - 1
    BY <1>1, <2>1, FS_RemoveElement
  <2>3. attempts' <= attempts + 1 /\ attempts' \in Int
    BY <1>1, <1>7 DEF IncrAttempts
  <2>4. QED
    BY <1>1, <2>2, <2>3
<1>8. CASE Expire
  <2>1. Counting' = Counting /\ (attempts' = attempts \/ attempts' <= 0)
    BY <1>8 DEF Expire, otpLocals, Counting
  <2>2. QED
    BY <1>2, <1>3, <2>1
<1>9. QED
  BY <1>4, <1>5, <1>6, <1>7, <1>8 DEF OtpNext

\* Only a comparison adds a guess, and it adds a call that will count; that call counts
\* or dies.
LEMMA GuessesNext == OtpInv /\ OtpNext => GuessesCounted'
<1> SUFFICES ASSUME OtpInv, OtpNext PROVE GuessesCounted'
  OBVIOUS
<1> USE DEF OtpInv, GuessesCounted
<1>1. /\ OtpTypeOK' /\ IsFiniteSet(Counting)
      /\ Cardinality(Counting) \in Nat /\ Cardinality(Counting') \in Nat
      /\ attempts \in Int /\ attempts' \in Int /\ guesses \in Nat /\ crashes \in Nat
  <2>1. Counting' \subseteq Workers
    BY DEF Counting
  <2>2. OtpTypeOK'
    BY OtpTypeNext
  <2>3. /\ attempts \in Int /\ attempts' \in Int /\ guesses \in Nat /\ crashes \in Nat
    BY <2>2, OtpAssumption DEF OtpTypeOK, Missing
  <2>4. IsFiniteSet(Counting')
    BY <2>1, WorkersAssumption, FS_Subset
  <2>5. Cardinality(Counting') \in Nat
    BY <2>4, FS_CardinalityType
  <2>6. QED
    BY <2>2, <2>3, <2>5, CountingFinite
<1>2. ASSUME NEW w \in Workers, SetAttempts(w) PROVE GuessesCounted'
  BY <1>1, <1>2 DEF SetAttempts
<1>3. ASSUME UNCHANGED <<guesses, crashes>>, attempts' \in {attempts, Missing},
             Counting' = Counting
      PROVE  GuessesCounted'
  BY <1>3
<1>4. ASSUME NEW w \in Workers,
             \/ GenerateOtp(w) \/ DeleteUsedUp(w) \/ DeleteCode(w) \/ DeleteAttempts(w)
             \/ \E g \in 0..issued : VerifyOtp(w, g)
      PROVE  GuessesCounted'
  <2>1. UNCHANGED <<guesses, crashes>> /\ attempts' \in {attempts, Missing}
    BY <1>4 DEF GenerateOtp, DeleteUsedUp, DeleteCode, DeleteAttempts, VerifyOtp, cache,
                history
  <2>2. Counting' = Counting
    BY <1>4 DEF GenerateOtp, DeleteUsedUp, DeleteCode, DeleteAttempts, VerifyOtp,
                OtpLeave, Counting, OtpTypeOK
  <2>3. QED
    BY <1>3, <2>1, <2>2
<1>5. CASE Expire
  BY <1>3, <1>5 DEF Expire, otpLocals, history, Counting
<1>6. ASSUME NEW w \in Workers, GetAttempts(w) PROVE GuessesCounted'
  <2>1. attempts' = attempts /\ crashes' = crashes /\ w \notin Counting
    BY <1>6 DEF GetAttempts, cache, Counting
  <2>2. CASE ~UsedUp(attempts) /\ guess[w] # sawCode[w]
    <3>1. Counting' = Counting \cup {w} /\ guesses' = guesses + 1
      BY <1>6, <2>2 DEF GetAttempts, Counting, OtpTypeOK
    <3>2. Cardinality(Counting') = Cardinality(Counting) + 1
      BY <1>1, <2>1, <3>1, FS_AddElement
    <3>3. QED
      BY <1>1, <2>1, <3>1, <3>2
  <2>3. CASE ~(~UsedUp(attempts) /\ guess[w] # sawCode[w])
    <3>1. Counting' = Counting /\ guesses' = guesses
      BY <1>6, <2>1, <2>3 DEF GetAttempts, Counting, OtpTypeOK
    <3>2. QED
      BY <1>3, <2>1, <3>1
  <2>4. QED
    BY <2>2, <2>3
<1>7. ASSUME NEW w \in Workers, IncrAttempts(w) \/ OtpCrash(w) PROVE GuessesCounted'
  <2>1. Counting' = Counting \ {w} /\ guesses' = guesses
    BY <1>7 DEF IncrAttempts, OtpCrash, OtpLeave, history, Counting, OtpTypeOK
  <2>2. Cardinality(Counting') + 1 >= Cardinality(Counting)
    <3>1. CASE w \in Counting
      BY <1>1, <2>1, <3>1, FS_RemoveElement
    <3>2. CASE w \notin Counting
      <4>1. Counting' = Counting
        BY <2>1, <3>2
      <4>2. QED
        BY <1>1, <4>1
    <3>3. QED
      BY <3>1, <3>2
  <2>3. \/ attempts' = Missing
        \/ /\ attempts # Missing
           /\ attempts' + crashes' = attempts + crashes + 1
    BY <1>1, <1>7 DEF IncrAttempts, OtpCrash, cache, Missing
  <2>4. CASE attempts' = Missing
    BY <2>4
  <2>5. CASE attempts # Missing /\ attempts' + crashes' = attempts + crashes + 1
    <3>1. guesses <= attempts + Cardinality(Counting) + crashes
      BY <2>5
    <3>2. crashes' \in Nat
      BY <1>1, OtpAssumption DEF OtpTypeOK
    <3>3. guesses' <= attempts' + Cardinality(Counting') + crashes'
      <4>1. ASSUME NEW g \in Int, NEW a \in Int, NEW b \in Int, NEW m \in Int,
                   NEW n \in Int, NEW x \in Int, NEW y \in Int,
                   g <= a + m + x, n + 1 >= m, b + y = a + x + 1
            PROVE  g <= b + n + y
        BY <4>1
      <4>2. guesses \in Int /\ crashes \in Int /\ crashes' \in Int
            /\ Cardinality(Counting) \in Int /\ Cardinality(Counting') \in Int
        BY <1>1, <3>2
      <4>3. guesses <= attempts' + Cardinality(Counting') + crashes'
        BY <1>1, <2>2, <2>5, <3>1, <4>1, <4>2
      <4>4. QED
        BY <2>1, <4>3
    <3>4. QED
      BY <3>3
  <2>6. QED
    BY <2>3, <2>4, <2>5
<1>8. QED
  BY <1>2, <1>4, <1>5, <1>6, <1>7 DEF OtpNext

LEMMA OtpNextInv == OtpInv /\ OtpNext => OtpInv'
BY OtpTypeNext, HeadroomNext, GuessesNext DEF OtpInv

\* No step accepts a code that is locked out, and none brings one back that is gone;
\* a locked-out code that leaves the cache leaves at most a straggler.
LEMMA LockoutStep ==
  ASSUME OtpTypeOK, OtpNext, NEW n \in 1..issued, ShutOut(n) \/ Gone(n)
  PROVE  /\ accepted'[n] = accepted[n]
         /\ ShutOut(n)' \/ Gone(n)' \/ Straggler(n)'
<1> USE DEF OtpTypeOK, Missing, OTP_MAX_ATTEMPTS
<1>1. CASE Gone(n)
  <2> USE <1>1 DEF Gone, Waits, LetPast
  <2>1. ASSUME NEW w \in Workers, GenerateOtp(w) PROVE accepted' = accepted /\ Gone(n)'
    BY <2>1 DEF GenerateOtp
  <2>2. ASSUME NEW w \in Workers, SetAttempts(w) PROVE accepted' = accepted /\ Gone(n)'
    BY <2>2 DEF SetAttempts, OtpLeave
  <2>3. ASSUME NEW w \in Workers, NEW g \in 0..issued, VerifyOtp(w, g)
        PROVE  accepted' = accepted /\ Gone(n)'
    BY <2>3 DEF VerifyOtp, cache, history
  <2>4. ASSUME NEW w \in Workers, GetAttempts(w) PROVE accepted' = accepted /\ Gone(n)'
    <3>1. \E to \in {"delete", "delete_code", "incr"} :
            /\ otpPc' = [otpPc EXCEPT ![w] = to]
            /\ to = "delete_code" => guess[w] = sawCode[w]
      BY <2>4 DEF GetAttempts
    <3>2. QED
      BY <2>4, <3>1 DEF GetAttempts, cache
  <2>5. ASSUME NEW w \in Workers, DeleteUsedUp(w) \/ IncrAttempts(w)
        PROVE  accepted' = accepted /\ Gone(n)'
    <3>1. accepted' = accepted /\ n # code' /\ OtpLeave(w)
      BY <2>5 DEF DeleteUsedUp, IncrAttempts, history
    <3>2. QED
      BY <3>1 DEF OtpLeave
  <2>6. ASSUME NEW w \in Workers, DeleteCode(w) PROVE accepted' = accepted /\ Gone(n)'
    BY <2>6 DEF DeleteCode, history
  <2>7. ASSUME NEW w \in Workers, DeleteAttempts(w)
        PROVE  accepted'[n] = accepted[n] /\ Gone(n)'
    BY <2>7 DEF DeleteAttempts, OtpLeave
  <2>8. ASSUME NEW w \in Workers, OtpCrash(w) PROVE accepted' = accepted /\ Gone(n)'
    BY <2>8 DEF OtpCrash, OtpLeave, cache, history
  <2>9. CASE Expire
    BY <2>9 DEF Expire, otpLocals, history
  <2>10. QED
    BY <2>1, <2>2, <2>3, <2>4, <2>5, <2>6, <2>7, <2>8, <2>9 DEF OtpNext
<1>2. CASE ShutOut(n)
  <2> USE <1>2 DEF ShutOut
  <2>1. ASSUME NEW w \in Workers, GenerateOtp(w)
        PROVE  accepted' = accepted /\ (Gone(n)' \/ Straggler(n)')
    <3>1. accepted' = accepted /\ n # code'
      BY <2>1 DEF GenerateOtp
    <3>2. \A v \in Workers : ~LetPast(v, n)'
      BY <2>1 DEF GenerateOtp, LetPast
    <3>3. QED
      BY <3>1, <3>2 DEF Gone, Straggler
  <2>2. ASSUME NEW w \in Workers, NEW g \in 0..issued, VerifyOtp(w, g)
        PROVE  accepted' = accepted /\ ShutOut(n)'
    BY <2>2 DEF VerifyOtp, cache, history
  <2>3. ASSUME NEW w \in Workers, GetAttempts(w) PROVE accepted' = accepted /\ ShutOut(n)'
    <3>1. otpPc' = [otpPc EXCEPT ![w] = "delete"]
      BY <2>3 DEF GetAttempts, UsedUp
    <3>2. QED
      BY <2>3, <3>1 DEF GetAttempts, cache
  <2>4. ASSUME NEW w \in Workers, DeleteUsedUp(w)
        PROVE  accepted' = accepted /\ ShutOut(n)'
    BY <2>4 DEF DeleteUsedUp, OtpLeave, history
  <2>5. ASSUME NEW w \in Workers, IncrAttempts(w) PROVE accepted' = accepted /\ ShutOut(n)'
    BY <2>5 DEF IncrAttempts, OtpLeave, history
  <2>6. ASSUME NEW w \in Workers, OtpCrash(w) PROVE accepted' = accepted /\ ShutOut(n)'
    BY <2>6 DEF OtpCrash, OtpLeave, cache, history
  <2>7. CASE Expire
    <3>1. UNCHANGED <<since, otpPc, sawCode, guess, accepted>>
      BY <2>7 DEF Expire, otpLocals, history
    <3>2. CASE attempts' = attempts /\ code' = 0
      BY <3>1, <3>2
    <3>3. CASE code' = code /\ (code = 0 \/ code > since)
      <4>1. n # code'
        BY <3>3
      <4>2. \A w \in Workers : otpPc'[w] = otpPc[w] /\ ~LetPast(w, n)'
        BY <3>1 DEF LetPast
      <4>3. QED
        BY <3>1, <4>1, <4>2 DEF Gone, Straggler
    <3>4. QED
      BY <2>7, <3>1, <3>2, <3>3 DEF Expire
  <2>8. ASSUME NEW w \in Workers
        PROVE  ~SetAttempts(w) /\ ~DeleteCode(w) /\ ~DeleteAttempts(w)
    BY DEF SetAttempts, DeleteCode, DeleteAttempts
  <2>9. QED
    BY <2>1, <2>2, <2>3, <2>4, <2>5, <2>6, <2>7, <2>8 DEF OtpNext
<1>3. QED
  BY <1>1, <1>2

-----------------------------------------------------------------------------
(* Registrations *)

\* A request looks for the values that its row's unique indexes are on, and for no other
\* that a row could have.
LEMMA LooksForItsValues ==
  ASSUME NEW r \in Requests
  PROVE  /\ Len(Lookups(r)) = 2
         /\ ValuesOf(r) \subseteq {Lookups(r)[i] : i \in 1..2}
         /\ \A i \in 1..2, s \in Requests :
              Lookups(r)[i] \in ValuesOf(s) => Lookups(r)[i] \in ValuesOf(r)
<1>1. Kind[r] \in {"user", "customer", "merchant"}
  BY RegistrationAssumption
<1>2. CASE Kind[r] = "user"
  <2>1. Lookups(r) = UserLookups(r) /\ ValuesOf(r) = UserRow(r) /\ r \in Users
    BY <1>2 DEF Lookups, ValuesOf, Users
  <2>2. \A s \in Requests : <<"users", "email", Sent[r]>> \in ValuesOf(s) => Sent[r] = Email[r]
    <3>1. SUFFICES ASSUME NEW s \in Requests, <<"users", "email", Sent[r]>> \in ValuesOf(s)
                   PROVE  Sent[r] = Email[r]
      OBVIOUS
    <3>2. Kind[s] \in {"user", "customer", "merchant"}
      BY RegistrationAssumption
    <3>3. s \in Users /\ Email[s] = Sent[r]
      BY <3>1, <3>2 DEF ValuesOf, UserRow, CustomerRow, MerchantRow, Users
    <3>4. QED
      BY <2>1, <3>3, RegistrationAssumption
  <2>3. QED
    BY <2>1, <2>2 DEF UserLookups, UserRow
<1>3. CASE Kind[r] = "customer"
  <2>1. Lookups(r) = CustomerLookups(r) /\ ValuesOf(r) = CustomerRow(r)
    BY <1>3 DEF Lookups, ValuesOf
  <2>2. QED
    BY <2>1 DEF CustomerLookups, CustomerRow
<1>4. CASE Kind[r] = "merchant"
  <2>1. Lookups(r) = MerchantLookups(r) /\ ValuesOf(r) = MerchantRow(r)
    BY <1>4 DEF Lookups, ValuesOf
  <2>2. QED
    BY <2>1 DEF MerchantLookups, MerchantRow
<1>5. QED
  BY <1>1, <1>2, <1>3, <1>4

\* A request is with one worker, unanswered, and no row that was there when it
\* arrived has a value that was looked for by now.
Searched(w) ==
  regJob[w] # NoRequest =>
    /\ answer[regJob[w]] = "none"
    /\ \A v \in Workers \ {w} : regJob[v] # regJob[w]
    /\ \A i \in 1..(regPc[w] - 1), s \in before[regJob[w]] :
         Lookups(regJob[w])[i] \notin ValuesOf(s)

RegInv == RegistrationTypeOK /\ RefusedForCause /\ \A w \in Workers : Searched(w)

LEMMA RegInitInv == RegistrationInit => RegInv
BY DEF RegistrationInit, RegInv, RegistrationTypeOK, RefusedForCause, Searched

\* What was taken stays taken: rows are only added.
LEMMA StaysTaken ==
  ASSUME rows \subseteq rows', NEW values, Taken(values)
  PROVE  Taken(values)'
BY DEF Taken

\* A request that is begun is recorded with the rows there are.
LEMMA BeginInv ==
  ASSUME RegInv, NEW w \in Workers, NEW r \in Requests, Waiting(w, r), Begin(w, r)
  PROVE  RegInv'
<1> USE RegistrationAssumption DEF RegInv
<1>1. 1 \in 1..(Len(Lookups(r)) + 1)
  BY LooksForItsValues
<1>2. RegistrationTypeOK'
  BY <1>1 DEF Waiting, Begin, RegistrationTypeOK
<1>3. RefusedForCause'
  BY DEF Waiting, Begin, RegistrationTypeOK, RefusedForCause, Taken
<1>4. ASSUME NEW v \in Workers PROVE Searched(v)'
  <2>1. CASE v = w
    BY <2>1 DEF Waiting, Begin, RegistrationTypeOK, Searched
  <2>2. CASE v # w
    <3>1. /\ regJob'[v] = regJob[v] /\ regPc'[v] = regPc[v]
          /\ regJob[v] # r /\ regJob'[w] = r /\ answer' = answer
          /\ \A s \in Requests \ {r} : before'[s] = before[s]
      BY <2>2 DEF Waiting, Begin, RegistrationTypeOK
    <3>2. QED
      BY <2>2, <3>1 DEF RegistrationTypeOK, Searched, Begin
  <2>3. QED
    BY <2>1, <2>2
<1>5. QED
  BY <1>2, <1>3, <1>4

\* An answer frees the worker and touches no other request.
LEMMA AnswerInv ==
  ASSUME RegInv, NEW w \in Workers, NEW r \in Requests, regJob[w] = r,
         NEW what \in {"created", "conflict", "error"}, Answer(w, what),
         rows \subseteq rows', rows' \subseteq Requests, before' = before,
         what \in {"conflict", "error"} => Taken(ValuesOf(r))',
         what = "error" => \A s \in before[r] : ValuesOf(s) \cap ValuesOf(r) = {}
  PROVE  RegInv'
<1> USE RegistrationAssumption DEF RegInv
<1>1. RegistrationTypeOK'
  BY DEF Answer, RegistrationTypeOK
<1>2. ASSUME NEW q \in Requests
      PROVE  /\ answer'[q] \in {"conflict", "error"} => Taken(ValuesOf(q))'
             /\ answer'[q] = "error" =>
                  \A s \in before'[q] : ValuesOf(s) \cap ValuesOf(q) = {}
  <2>1. CASE q = r
    BY <2>1 DEF Answer, RegistrationTypeOK
  <2>2. CASE q # r
    <3>1. answer'[q] = answer[q]
      BY <2>2 DEF Answer, RegistrationTypeOK
    <3>2. QED
      BY <3>1, StaysTaken DEF RefusedForCause
  <2>3. QED
    BY <2>1, <2>2
<1>3. RefusedForCause'
  BY <1>2 DEF RefusedForCause
<1>4. ASSUME NEW v \in Workers PROVE Searched(v)'
  <2>1. CASE v = w
    BY <2>1 DEF Answer, RegistrationTypeOK, Searched
  <2>2. CASE v # w
    <3>1. /\ regJob'[v] = regJob[v] /\ regPc'[v] = regPc[v]
          /\ regJob[v] \in Requests \cup {NoRequest}
          /\ \A q \in Requests \ {r} : answer'[q] = answer[q]
      BY <2>2 DEF Answer, RegistrationTypeOK
    <3>2. regJob[v] # NoRequest =>
            /\ regJob[v] # r
            /\ \A u \in Workers \ {v} : regJob'[u] \in {regJob[u], NoRequest}
      BY <2>2 DEF Answer, RegistrationTypeOK, Searched
    <3>3. QED
      BY <2>2, <3>1, <3>2 DEF Searched
  <2>3. QED
    BY <2>1, <2>2
<1>5. QED
  BY <1>1, <1>3, <1>4

LEMMA RegNextInv == RegInv /\ RegistrationNext => RegInv'
<1> SUFFICES ASSUME RegInv, RegistrationNext PROVE RegInv'
  OBVIOUS
<1> USE RegistrationAssumption
<1>1. ASSUME NEW w \in Workers, NEW r \in Requests,
             \/ RegisterUser(w, r)
             \/ RegisterProfile(w, r) /\ MayRegister(r)
      PROVE  RegInv'
  BY <1>1, BeginInv DEF RegisterUser, RegisterProfile
<1>2. ASSUME NEW w \in Workers, NEW r \in Requests,
             RegisterProfile(w, r), ~MayRegister(r)
      PROVE  RegInv'
  <2>1. /\ answer[r] = "none" /\ answer' = [answer EXCEPT ![r] = "forbidden"]
        /\ \A v \in Workers : regJob[v] # r
        /\ UNCHANGED <<rows, regPc, regJob, before>>
    BY <1>2 DEF RegisterProfile, Waiting
  <2>2. QED
    BY <2>1 DEF RegInv, RegistrationTypeOK, RefusedForCause, Taken, Searched
<1>3. ASSUME NEW w \in Workers, LookFor(w) PROVE RegInv'
  <2>0. PICK r \in Requests : r = regJob[w]
    BY <1>3 DEF LookFor, RegInv, RegistrationTypeOK
  <2> DEFINE value == Lookups(r)[regPc[w]]
  <2>1. regPc[w] \in 1..Len(Lookups(r)) /\ Len(Lookups(r)) = 2 /\ rows \subseteq Requests
    BY <1>3, <2>0, LooksForItsValues DEF LookFor, RegInv, RegistrationTypeOK
  <2>2. CASE Taken({value})
    <3>0. PICK s \in rows : value \in ValuesOf(s)
      BY <2>2 DEF Taken
    <3>1. Taken(ValuesOf(r)) /\ rows' = rows
      BY <1>3, <2>0, <2>1, <2>2, <3>0, LooksForItsValues DEF LookFor, Taken
    <3>2. Taken(ValuesOf(r))'
      BY <3>1 DEF Taken
    <3>3. QED
      BY <1>3, <2>0, <2>1, <2>2, <3>1, <3>2, AnswerInv
         DEF LookFor, RegInv, RegistrationTypeOK
  <2>3. CASE ~Taken({value})
    <3>1. /\ regPc' = [regPc EXCEPT ![w] = @ + 1]
          /\ UNCHANGED <<rows, answer, regJob, before>>
      BY <1>3, <2>0, <2>3 DEF LookFor
    <3>2. \A s \in before[r] : value \notin ValuesOf(s)
      BY <2>0, <2>1, <2>3 DEF Taken, RegInv, RegistrationTypeOK
    <3>3. RegistrationTypeOK' /\ RefusedForCause'
      <4>1. regPc'[w] \in 1..(Len(Lookups(regJob[w])) + 1) /\ regPc'[w] \in Nat
        BY <2>0, <2>1, <3>1 DEF RegInv, RegistrationTypeOK
      <4>2. \A v \in Workers \ {w} : regPc'[v] = regPc[v]
        BY <3>1 DEF RegInv, RegistrationTypeOK
      <4>3. regPc' \in [Workers -> Nat]
        BY <3>1, <4>1 DEF RegInv, RegistrationTypeOK
      <4>4. \A v \in Workers :
              /\ regPc'[v] = 0 <=> regJob'[v] = NoRequest
              /\ regJob'[v] # NoRequest => regPc'[v] \in 1..(Len(Lookups(regJob'[v])) + 1)
        <5>1. ASSUME NEW v \in Workers, v = w
              PROVE  /\ regPc'[v] = 0 <=> regJob'[v] = NoRequest
                     /\ regJob'[v] # NoRequest =>
                          regPc'[v] \in 1..(Len(Lookups(regJob'[v])) + 1)
          <6>1. regJob'[v] = r /\ regPc'[v] # 0 /\ r # NoRequest
            BY <2>0, <3>1, <4>1, <5>1
          <6>2. QED
            BY <2>0, <4>1, <5>1, <6>1
        <5>2. ASSUME NEW v \in Workers, v # w
              PROVE  /\ regPc'[v] = 0 <=> regJob'[v] = NoRequest
                     /\ regJob'[v] # NoRequest =>
                          regPc'[v] \in 1..(Len(Lookups(regJob'[v])) + 1)
          BY <3>1, <4>2, <5>2 DEF RegInv, RegistrationTypeOK
        <5>3. QED
          BY <5>1, <5>2
      <4>5. RegistrationTypeOK'
        BY <3>1, <4>3, <4>4 DEF RegInv, RegistrationTypeOK
      <4>6. RefusedForCause'
        BY <3>1 DEF RegInv, RefusedForCause, Taken
      <4>7. QED
        BY <4>5, <4>6
    <3>4. Searched(w)'
      <4>1. regPc'[w] = regPc[w] + 1 /\ regPc[w] \in Nat
        BY <3>1 DEF RegInv, RegistrationTypeOK
      <4>2. ASSUME NEW i \in 1..(regPc'[w] - 1), NEW s \in before[r]
            PROVE  Lookups(r)[i] \notin ValuesOf(s)
        <5>1. i = regPc[w] \/ i \in 1..(regPc[w] - 1)
          BY <4>1
        <5>2. QED
          BY <2>0, <2>1, <3>2, <5>1 DEF RegInv, Searched
      <4>3. QED
        BY <2>0, <2>1, <3>1, <4>2 DEF RegInv, Searched
    <3>5. ASSUME NEW v \in Workers \ {w} PROVE Searched(v)'
      BY <2>0, <3>1 DEF RegInv, RegistrationTypeOK, Searched
    <3>6. QED
      BY <3>3, <3>4, <3>5 DEF RegInv
  <2>4. QED
    BY <2>2, <2>3
<1>4. ASSUME NEW w \in Workers, InsertRow(w) PROVE RegInv'
  <2>0. PICK r \in Requests : r = regJob[w]
    BY <1>4 DEF InsertRow, RegInv, RegistrationTypeOK
  <2>1. /\ regPc[w] \in Nat /\ Len(Lookups(r)) \in Nat
        /\ regPc[w] = Len(Lookups(r)) + 1
    BY <1>4, <2>0, LooksForItsValues DEF InsertRow, RegInv, RegistrationTypeOK
  <2>2. \A s \in before[r] : ValuesOf(s) \cap ValuesOf(r) = {}
    <3>1. \A i \in 1..Len(Lookups(r)), s \in before[r] : Lookups(r)[i] \notin ValuesOf(s)
      BY <1>4, <2>0, <2>1 DEF InsertRow, RegInv, Searched
    <3>2. QED
      BY <2>1, <3>1, LooksForItsValues
  <2>3. CASE Taken(ValuesOf(r))
    <3>1. Answer(w, "error") /\ UNCHANGED <<rows, before>>
      BY <1>4, <2>0, <2>3 DEF InsertRow
    <3>2. Taken(ValuesOf(r))'
      BY <2>3, <3>1 DEF Taken
    <3>3. QED
      BY <1>4, <2>0, <2>1, <2>2, <3>1, <3>2, AnswerInv
         DEF InsertRow, RegInv, RegistrationTypeOK
  <2>4. CASE ~Taken(ValuesOf(r))
    <3>1. Answer(w, "created") /\ rows' = rows \cup {r} /\ before' = before
      BY <1>4, <2>0, <2>4 DEF InsertRow
    <3>2. QED
      BY <1>4, <2>0, <2>1, <3>1, AnswerInv DEF InsertRow, RegInv, RegistrationTypeOK
  <2>5. QED
    BY <2>3, <2>4
<1>5. ASSUME NEW w \in Workers, NEW r \in Requests,
             RegisterUser(w, r) \/ RegisterProfile(w, r)
      PROVE  RegInv'
  BY <1>1, <1>2, <1>5
<1>6. QED
  BY <1>3, <1>4, <1>5 DEF RegistrationNext

-----------------------------------------------------------------------------
(* API keys *)

LEMMA KeysInitType == KeysInit => KeysTypeOK
BY KeysAssumption DEF KeysInit, KeysTypeOK, KeyRow, NewKey, Generated

LEMMA KeysTypeNext == KeysTypeOK /\ KeysNext => KeysTypeOK'
<1> SUFFICES ASSUME KeysTypeOK, KeysNext PROVE KeysTypeOK'
  OBVIOUS
<1> USE KeysAssumption DEF KeysTypeOK, Generated
<1>1. NewKey \in KeyRow
  BY DEF NewKey, KeyRow
<1>2. ASSUME NEW row \in KeyRow, NEW b \in BOOLEAN
      PROVE  /\ [row EXCEPT !.last_used = b] \in KeyRow
             /\ [row EXCEPT !.is_active = b] \in KeyRow
  BY DEF KeyRow
<1>3. ASSUME NEW k \in Keys, GenerateKey(k) PROVE KeysTypeOK'
  BY <1>1, <1>3 DEF GenerateKey
<1>4. ASSUME NEW w \in Workers, NEW k \in Keys, LookUpKey(w, k) PROVE KeysTypeOK'
  BY <1>4 DEF LookUpKey
<1>5. ASSUME NEW w \in Workers, TouchKey(w) PROVE KeysTypeOK'
  <2>1. keyJob[w] \in DOMAIN keys
    BY <1>5 DEF TouchKey
  <2>2. [keys[keyJob[w]] EXCEPT !.last_used = TRUE] \in KeyRow
    BY <1>2, <2>1
  <2>3. keys' \in [DOMAIN keys -> KeyRow]
    BY <1>5, <2>1, <2>2 DEF TouchKey
  <2>4. QED
    BY <1>1, <1>5, <2>3 DEF TouchKey, ForgetKey
<1>6. ASSUME NEW k \in Keys, DeactivateKey(k) PROVE KeysTypeOK'
  <2>1. [keys[k] EXCEPT !.is_active = FALSE] \in KeyRow
    BY <1>2, <1>6 DEF DeactivateKey
  <2>2. keys' \in [DOMAIN keys -> KeyRow]
    BY <1>6, <2>1 DEF DeactivateKey
  <2>3. QED
    BY <1>6, <2>2 DEF DeactivateKey
<1>7. ASSUME NEW k \in Keys, OpenKeyForm(k) PROVE KeysTypeOK'
  BY <1>7 DEF OpenKeyForm
<1>8. ASSUME NEW k \in Keys, SaveKeyForm(k) PROVE KeysTypeOK'
  <2>1. form[k] \in KeyRow
    BY <1>8 DEF SaveKeyForm
  <2>2. PICK active \in BOOLEAN :
          keys' = [keys EXCEPT ![k] = [form[k] EXCEPT !.is_active = active]]
    BY <1>8 DEF SaveKeyForm
  <2>3. QED
    BY <1>2, <1>8, <2>1, <2>2 DEF SaveKeyForm
<1>9. QED
  BY <1>3, <1>4, <1>5, <1>6, <1>7, <1>8 DEF KeysNext

\* Every step but a saved form leaves an inactive key inactive.
LEMMA InactiveStep ==
  ASSUME KeysTypeOK, KeysNext, NEW k \in Generated,
         ~keys[k].is_active, keys'[k].is_active
  PROVE  form[k] # NoForm /\ form'[k] = NoForm
<1> USE DEF KeysTypeOK, Generated, KeyRow
<1>1. ASSUME NEW j \in Keys, SaveKeyForm(j)
      PROVE  form[k] # NoForm /\ form'[k] = NoForm
  <2>1. j = k
    BY <1>1 DEF SaveKeyForm
  <2>2. QED
    BY <1>1, <2>1 DEF SaveKeyForm
<1>2. ASSUME NEW j \in Keys, GenerateKey(j) \/ DeactivateKey(j) \/ OpenKeyForm(j)
      PROVE  FALSE
  BY <1>2 DEF GenerateKey, DeactivateKey, OpenKeyForm
<1>3. ASSUME NEW w \in Workers, TouchKey(w) \/ \E j \in Keys : LookUpKey(w, j)
      PROVE  FALSE
  BY <1>3 DEF TouchKey, LookUpKey
<1>4. QED
  BY <1>1, <1>2, <1>3 DEF KeysNext

-----------------------------------------------------------------------------
(* The three together *)

IdentityInv ==
  /\ OtpInv
  /\ RegInv
  /\ KeysTypeOK
  /\ service \in {"otp", "registration", "keys"}

LEMMA InitInv == IdentityInit => IdentityInv
BY OtpInitInv, RegInitInv, KeysInitType DEF IdentityInit, IdentityInv

\* What one service knows does not depend on the state of the others.
LEMMA Unmoved ==
  /\ OtpInv /\ UNCHANGED otpVars => OtpInv'
  /\ RegInv /\ UNCHANGED regVars => RegInv'
  /\ KeysTypeOK /\ UNCHANGED keyVars => KeysTypeOK'
<1>1. OtpInv /\ UNCHANGED otpVars => OtpInv'
  BY DEF OtpInv, OtpTypeOK, Headroom, GuessesCounted, Counting, otpVars, cache, otpLocals, history
<1>2. RegInv /\ UNCHANGED regVars => RegInv'
  BY DEF RegInv, RegistrationTypeOK, RefusedForCause, Taken, Searched, regVars
<1>3. KeysTypeOK /\ UNCHANGED keyVars => KeysTypeOK'
  BY DEF KeysTypeOK, Generated, keyVars
<1>4. QED
  BY <1>1, <1>2, <1>3

LEMMA NextInv == IdentityInv /\ [IdentityNext]_identityVars => IdentityInv'
<1> SUFFICES ASSUME IdentityInv, [IdentityNext]_identityVars PROVE IdentityInv'
  OBVIOUS
<1> USE DEF IdentityInv
<1>1. CASE service = "otp" /\ OtpNext /\ UNCHANGED <<regVars, keyVars, service>>
  BY <1>1, OtpNextInv, Unmoved
<1>2. CASE service = "registration" /\ RegistrationNext
           /\ UNCHANGED <<otpVars, keyVars, service>>
  BY <1>2, RegNextInv, Unmoved
<1>3. CASE service = "keys" /\ KeysNext /\ UNCHANGED <<otpVars, regVars, service>>
  BY <1>3, KeysTypeNext, Unmoved
<1>4. CASE UNCHANGED identityVars
  BY <1>4, Unmoved DEF identityVars
<1>5. QED
  BY <1>1, <1>2, <1>3, <1>4 DEF IdentityNext

LEMMA Invariant == IdentitySpec => []IdentityInv
BY InitInv, NextInv, PTL DEF IdentitySpec

\* The cache, the tables and the workers' local state stay well-formed.
THEOREM TypeCorrect == IdentitySpec => []IdentityTypeOK
<1>1. IdentityInv => IdentityTypeOK
  BY DEF IdentityInv, OtpInv, RegInv, IdentityTypeOK
<1>2. QED
  BY <1>1, Invariant, PTL

\* However many calls of verify_otp overlap, no more wrong guesses are compared under one
\* counter than the maximum, one for each other worker and one for each that died.
THEOREM GuessesAreFew == IdentitySpec => []GuessesBounded
<1>1. IdentityInv => GuessesBounded
  <2> SUFFICES ASSUME OtpInv, attempts # Missing
               PROVE  guesses <= OTP_MAX_ATTEMPTS - 1 + Cardinality(Workers) + crashes
    BY DEF IdentityInv, GuessesBounded
  <2>1. attempts \in Int /\ guesses \in Nat /\ crashes \in Nat
    BY OtpAssumption DEF OtpInv, OtpTypeOK, Missing
  <2>2. QED
    BY <2>1, CountingFinite DEF OtpInv, Headroom, GuessesCounted, OTP_MAX_ATTEMPTS
<1>2. QED
  BY <1>1, Invariant, PTL

\* A code whose attempts are used up is never accepted again, also after it was replaced
\* or deleted, unless by a call that had read it before.
THEOREM LockedOut == IdentitySpec => LockoutHolds
<1> DEFINE Kept == \A n \in 1..issued :
                     ShutOut(n) \/ Gone(n) =>
                       /\ accepted'[n] = accepted[n]
                       /\ ShutOut(n)' \/ Gone(n)' \/ Straggler(n)'
<1>1. IdentityInv /\ [IdentityNext]_identityVars => [Kept]_otpVars
  <2> SUFFICES ASSUME IdentityInv, [IdentityNext]_identityVars, otpVars' # otpVars
               PROVE  Kept
    OBVIOUS
  <2>1. OtpNext
    BY DEF IdentityNext, identityVars
  <2>2. QED
    BY <2>1, LockoutStep DEF IdentityInv, OtpInv
<1>2. QED
  BY <1>1, Invariant, PTL DEF IdentitySpec, LockoutHolds

\* Whoever is refused a registration has a value that somebody else registered, and a
\* database error is only for one who was overtaken.
THEOREM RefusalsHaveCause == IdentitySpec => []RefusedForCause
<1>1. IdentityInv => RefusedForCause
  BY DEF IdentityInv, RegInv
<1>2. QED
  BY <1>1, Invariant, PTL

\* An API key that was deactivated becomes active again by a saved form only.
THEOREM KeysStayInactive == IdentitySpec => StaysInactive
<1> DEFINE Kept == \A k \in Generated :
                     ~keys[k].is_active /\ keys'[k].is_active =>
                       form[k] # NoForm /\ form'[k] = NoForm
<1>1. IdentityInv /\ [IdentityNext]_identityVars => [Kept]_keyVars
  <2> SUFFICES ASSUME IdentityInv, [IdentityNext]_identityVars, keyVars' # keyVars
               PROVE  Kept
    OBVIOUS
  <2>1. KeysNext
    BY DEF IdentityNext, identityVars
  <2>2. QED
    BY <2>1, InactiveStep DEF IdentityInv
<1>2. QED
  BY <1>1, Invariant, PTL DEF IdentitySpec, StaysInactive
-----------------------------------------------------------------------------
(* The merchant a tab shows *)

\* The parts of a tab the argument is about are well-formed.
TabsOK ==
  /\ storage \in Nat /\ logins \in Nat
  /\ token \in [Tabs -> Nat]
  /\ profile \in [Tabs -> Nat]
  /\ asking \in [Tabs -> Nat]
  /\ isLoading \in [Tabs -> BOOLEAN]
  /\ signingIn \in [Tabs -> {"no", "login", "profile"}]

\* The form is disabled exactly while a login is under way; the profile that is asked
\* for is the one of the token, if the tab still has it; and what is shown is replaced
\* or forgotten before the form is usable again.
TabInv(t) ==
  /\ isLoading[t] <=> signingIn[t] # "no"
  /\ signingIn[t] = "profile" => token[t] \in {0, asking[t]}
  /\ signingIn[t] # "profile" /\ token[t] # 0 /\ profile[t] # 0
       => profile[t] = token[t]

PortalInv == TabsOK /\ \A t \in Tabs : TabInv(t)

\* The portal is opened before anyone has signed in.
LEMMA PortalInitInv == Init => PortalInv
BY DEF Init, PortalInv, TabsOK, TabInv

\* Each callback of a tab keeps the tab's invariant and the other tabs' stores.
LEMMA PortalNextInv == PortalInv /\ [Next]_vars => PortalInv'
<1> SUFFICES ASSUME PortalInv, [Next]_vars PROVE PortalInv'
  OBVIOUS
<1> USE DEF PortalInv, TabsOK, TabInv, SignedIn, clearTokens
<1>1. ASSUME NEW t \in Tabs, login(t) PROVE PortalInv'
  BY <1>1 DEF login, server
<1>2. ASSUME NEW t \in Tabs, LoginAnswered(t) PROVE PortalInv'
  BY <1>2 DEF LoginAnswered
<1>3. ASSUME NEW t \in Tabs, LoginFailed(t) PROVE PortalInv'
  BY <1>3 DEF LoginFailed, server
<1>4. ASSUME NEW t \in Tabs, ProfileAnswered(t) PROVE PortalInv'
  BY <1>4 DEF ProfileAnswered, server
<1>5. ASSUME NEW t \in Tabs, ProfileFailed(t) PROVE PortalInv'
  BY <1>5 DEF ProfileFailed, server
<1>6. ASSUME NEW t \in Tabs, FetchData(t) \/ logout(t) \/ Navigate(t) PROVE PortalInv'
  BY <1>6 DEF FetchData, logout, Navigate, store, calls, server
<1>7. ASSUME NEW t \in Tabs, Load(t) PROVE PortalInv'
  BY <1>7 DEF Load, server
<1>8. ASSUME NEW t \in Tabs, NEW s \in data[t], DataAnswered(t, s) PROVE PortalInv'
  <2>1. storage' = 0 \/ storage' = storage
    BY <1>8 DEF DataAnswered
  <2>2. UNCHANGED <<token, profile, isLoading, signingIn, asking, logins>>
    BY <1>8 DEF DataAnswered, store, server
  <2>3. QED
    BY <2>1, <2>2
<1>9. ASSUME NEW t \in Tabs, NEW s \in goodbye[t], LogoutAnswered(t, s) \/ LogoutFailed(t, s)
      PROVE  PortalInv'
  BY <1>9 DEF LogoutAnswered, LogoutFailed, server
<1>10. ASSUME NEW s \in 1..MaxLogins, TokenExpires(s) PROVE PortalInv'
  BY <1>10 DEF TokenExpires, store, calls
<1>11. CASE UNCHANGED vars
  BY <1>11 DEF vars, store, calls, server
<1>12. QED
  BY <1>1, <1>2, <1>3, <1>4, <1>5, <1>6, <1>7, <1>8, <1>9, <1>10, <1>11
     DEF Next, SignInStep

\* The sidebar never shows the merchant of another login than the one the tab works
\* with, in whatever order answers, 401s, logouts and page loads come.
THEOREM OwnProfile == Spec => []ProfileIsOwn
<1>1. PortalInv => ProfileIsOwn
  BY DEF PortalInv, TabsOK, TabInv, ProfileIsOwn
<1>2. QED
  BY <1>1, PortalInitInv, PortalNextInv, PTL DEF Spec
=============================================================================
