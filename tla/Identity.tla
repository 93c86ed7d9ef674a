------------------------------- MODULE Identity -------------------------------
(***************************************************************************)
(* Who may use the system: one-time codes, registrations and API keys.     *)
(* The three share the worker processes and no state at all, so that a     *)
(* behaviour of one shows what it shows whatever the others do: each       *)
(* behaviour here is one of a single service, chosen at the start.         *)
(***************************************************************************)
EXTENDS Otp, Registration, ApiKeys

VARIABLE service

identityVars == <<otpVars, regVars, keyVars, service>>

IdentityTypeOK ==
  /\ OtpTypeOK
  /\ RegistrationTypeOK
  /\ KeysTypeOK
  /\ service \in {"otp", "registration", "keys"}

IdentityInit ==
  /\ OtpInit
  /\ RegistrationInit
  /\ KeysInit
  /\ service \in {"otp", "registration", "keys"}

IdentityNext ==
  /\ \/ service = "otp" /\ OtpNext /\ UNCHANGED <<regVars, keyVars>>
     \/ service = "registration" /\ RegistrationNext /\ UNCHANGED <<otpVars, keyVars>>
     \/ service = "keys" /\ KeysNext /\ UNCHANGED <<otpVars, regVars>>
  /\ UNCHANGED service

IdentitySpec == IdentityInit /\ [][IdentityNext]_identityVars
=============================================================================
