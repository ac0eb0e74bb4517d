------------------------------- MODULE Login -------------------------------
(***************************************************************************)
(* Signing in with a code sent by SMS, and staying signed in               *)
(* (auth.controller.js): the code, the send lock and the count of wrong    *)
(* entries in Redis, the hash of the refresh token in the users table.     *)
(*                                                                         *)
(* One phone number and one device.  Codes and tokens are numbered in the  *)
(* order in which they are made.  A request is served one command after    *)
(* the other; a command may fail, which ends its request.  Rate limits,    *)
(* MFA and the access tokens are left out.                                 *)
(***************************************************************************)
EXTENDS Naturals

CONSTANTS
    Sessions,    \* bound: requests in flight at once
    MaxSms,      \* bound: codes drawn
    MaxTokens,   \* bound: refresh tokens made
    MaxTries,    \* OTP_MAX_ATTEMPTS
    MaxStrikes   \* wrong entries after which the phone is locked

ASSUME LoginAssumption == {MaxSms, MaxTokens, MaxTries, MaxStrikes} \subseteq Nat

VARIABLES
    otpKey,     \* Redis otp:<phone>: the code and the attempts; code 0 when absent
    sendLock,   \* Redis otp:send-lock:<phone>
    strikes,    \* Redis lockout:<phone>
    dbToken,    \* users.refresh_token_hash, 0 when NULL
    session,    \* what each request in flight is doing
    sms,        \* the code of the newest SMS that was sent
    device,     \* the refresh token the device keeps, 0 when signed out
    codes,      \* codes drawn so far
    tokens,     \* tokens made so far
    crossedIn,  \* history: two requests were in flight at once
    cutShort    \* history: a request ended before its last command

loginVars == <<otpKey, sendLock, strikes, dbToken, session, sms, device,
               codes, tokens, crossedIn, cutShort>>

NoOtp == [code |-> 0, tries |-> 0]
Out   == [at |-> "out", resend |-> FALSE, otp |-> NoOtp, count |-> 0, token |-> 0]

SessionAt(h, at) == session[h].at = at
Others(h)        == {g \in Sessions \ {h} : ~SessionAt(g, "out")}

\* Request h goes on as s; that others are in flight is noted.
Continues(h, s) ==
    /\ session' = [session EXCEPT ![h] = s]
    /\ crossedIn' = (crossedIn \/ Others(h) # {})

Proceeds(h, at) == Continues(h, [session[h] EXCEPT !.at = at])
Ends(h)         == Continues(h, Out)

-----------------------------------------------------------------------------
\* POST /send-otp.

\* The lock is read here and set by the next command.
SendOtp(h, resend) ==
    /\ SessionAt(h, "out")
    /\ strikes < MaxStrikes
    /\ ~sendLock
    /\ Continues(h, [Out EXCEPT !.at = "lock", !.resend = resend])
    /\ UNCHANGED <<otpKey, sendLock, strikes, dbToken, sms, device, codes, tokens, cutShort>>

SetSendLock(h) ==
    /\ SessionAt(h, "lock")
    /\ sendLock' = TRUE
    /\ Proceeds(h, IF session[h].resend THEN "forget" ELSE "look")
    /\ UNCHANGED <<otpKey, strikes, dbToken, sms, device, codes, tokens, cutShort>>

ForgetCode(h) ==
    /\ SessionAt(h, "forget")
    /\ otpKey' = NoOtp
    /\ Proceeds(h, "look")
    /\ UNCHANGED <<sendLock, strikes, dbToken, sms, device, codes, tokens, cutShort>>

\* A code that is still valid is not sent again.
LookForCode(h) ==
    /\ SessionAt(h, "look")
    /\ Proceeds(h, IF otpKey = NoOtp THEN "store" ELSE "unlock")
    /\ UNCHANGED <<otpKey, sendLock, strikes, dbToken, sms, device, codes, tokens, cutShort>>

StoreCode(h) ==
    /\ SessionAt(h, "store")
    /\ codes < MaxSms
    /\ codes' = codes + 1
    /\ otpKey' = [code |-> codes + 1, tries |-> 0]
    /\ Continues(h, [session[h] EXCEPT !.at = "send", !.otp = otpKey'])
    /\ UNCHANGED <<sendLock, strikes, dbToken, sms, device, tokens, cutShort>>

\* Mutant: the code of an SMS that was not sent stays.
SendSmsKeepsCode(h) ==
    /\ SessionAt(h, "send")
    /\ \/ sms' = session[h].otp.code
       \/ UNCHANGED sms
    /\ Proceeds(h, "unlock")
    /\ UNCHANGED <<otpKey, sendLock, strikes, dbToken, device, codes, tokens, cutShort>>

SendSms(h) ==
    /\ SessionAt(h, "send")
    /\ \/ sms' = session[h].otp.code /\ Proceeds(h, "unlock")
       \/ UNCHANGED sms /\ Proceeds(h, "unlock_failed")
    /\ UNCHANGED <<otpKey, sendLock, strikes, dbToken, device, codes, tokens, cutShort>>

ReleaseSendLock(h) ==
    /\ sendLock' = FALSE
    /\ \/ SessionAt(h, "unlock") /\ Ends(h)
       \/ SessionAt(h, "unlock_failed") /\ Proceeds(h, "drop")
    /\ UNCHANGED <<otpKey, strikes, dbToken, sms, device, codes, tokens, cutShort>>

DropCode(h) ==
    /\ SessionAt(h, "drop")
    /\ otpKey' = NoOtp
    /\ Ends(h)
    /\ UNCHANGED <<sendLock, strikes, dbToken, sms, device, codes, tokens, cutShort>>

-----------------------------------------------------------------------------
\* POST /verify-otp.

\* What is entered is compared with what this read returned.
VerifyOtp(h) ==
    /\ SessionAt(h, "out")
    /\ otpKey # NoOtp
    /\ LET s == [Out EXCEPT !.otp = otpKey]
       IN  \/ otpKey.tries >= MaxTries /\ Continues(h, [s EXCEPT !.at = "drop"])
           \/ otpKey.tries < MaxTries /\ Continues(h, [s EXCEPT !.at = "count"])
           \/ otpKey.tries < MaxTries /\ Continues(h, [s EXCEPT !.at = "spend"])
    /\ UNCHANGED <<otpKey, sendLock, strikes, dbToken, sms, device, codes, tokens, cutShort>>

\* Strikes beyond the last one make no difference and are not told apart.
OneMore(n) == IF n < MaxStrikes THEN n + 1 ELSE n

\* A wrong entry is counted in two commands, and then against the code as it
\* was read, which is put back.
CountStrike(h) ==
    /\ SessionAt(h, "count")
    /\ Continues(h, [session[h] EXCEPT !.at = "strike", !.count = OneMore(strikes)])
    /\ UNCHANGED <<otpKey, sendLock, strikes, dbToken, sms, device, codes, tokens, cutShort>>

WriteStrike(h) ==
    /\ SessionAt(h, "strike")
    /\ strikes' = session[h].count
    /\ Proceeds(h, IF session[h].count >= MaxStrikes THEN "drop" ELSE "put_back")
    /\ UNCHANGED <<otpKey, sendLock, dbToken, sms, device, codes, tokens, cutShort>>

PutBack(h) ==
    /\ SessionAt(h, "put_back")
    /\ otpKey' = [session[h].otp EXCEPT !.tries = session[h].otp.tries + 1]
    /\ Ends(h)
    /\ UNCHANGED <<sendLock, strikes, dbToken, sms, device, codes, tokens, cutShort>>

\* The code is spent before the user is looked up or made.
SpendCode(h) ==
    /\ SessionAt(h, "spend")
    /\ otpKey' = NoOtp
    /\ Proceeds(h, "token")
    /\ UNCHANGED <<sendLock, strikes, dbToken, sms, device, codes, tokens, cutShort>>

-----------------------------------------------------------------------------
\* Tokens.

\* POST /refresh-token: the token must be the one in the table.
RefreshToken(h) ==
    /\ SessionAt(h, "out")
    /\ device # 0 /\ device = dbToken
    /\ Continues(h, [Out EXCEPT !.at = "token"])
    /\ UNCHANGED <<otpKey, sendLock, strikes, dbToken, sms, device, codes, tokens, cutShort>>

\* generateTokens, and the UPDATE that makes the new one the only one.
WriteToken(h) ==
    /\ SessionAt(h, "token")
    /\ tokens < MaxTokens
    /\ tokens' = tokens + 1
    /\ dbToken' = tokens + 1
    /\ Continues(h, [session[h] EXCEPT !.at = "answer", !.token = tokens + 1])
    /\ UNCHANGED <<otpKey, sendLock, strikes, sms, device, codes, cutShort>>

\* The device gets its token; after a sign-in the wrong entries are forgotten.
Answer(h) ==
    /\ SessionAt(h, "answer")
    /\ strikes' = IF session[h].otp = NoOtp THEN strikes ELSE 0
    /\ device' = session[h].token
    /\ Ends(h)
    /\ UNCHANGED <<otpKey, sendLock, dbToken, sms, codes, tokens, cutShort>>

\* POST /logout.
Logout(h) ==
    /\ SessionAt(h, "out")
    /\ device # 0
    /\ dbToken' = 0
    /\ Continues(h, [Out EXCEPT !.at = "blacklist"])
    /\ UNCHANGED <<otpKey, sendLock, strikes, sms, device, codes, tokens, cutShort>>

Blacklist(h) ==
    /\ SessionAt(h, "blacklist")
    /\ device' = 0
    /\ Ends(h)
    /\ UNCHANGED <<otpKey, sendLock, strikes, dbToken, sms, codes, tokens, cutShort>>

-----------------------------------------------------------------------------
\* A command or the process fails, or the answer is lost: nothing is undone.
SessionFails(h) ==
    /\ ~SessionAt(h, "out")
    /\ cutShort' = TRUE
    /\ Ends(h)
    /\ UNCHANGED <<otpKey, sendLock, strikes, dbToken, sms, device, codes, tokens>>

KeyExpires ==
    /\ \/ otpKey # NoOtp /\ otpKey' = NoOtp /\ UNCHANGED <<sendLock, strikes>>
       \/ sendLock /\ sendLock' = FALSE /\ UNCHANGED <<otpKey, strikes>>
       \/ strikes # 0 /\ strikes' = 0 /\ UNCHANGED <<otpKey, sendLock>>
    /\ UNCHANGED <<dbToken, session, sms, device, codes, tokens, crossedIn, cutShort>>

LoginInit ==
    /\ otpKey = NoOtp /\ sendLock = FALSE /\ strikes = 0
    /\ dbToken = 0 /\ device = 0 /\ sms = 0
    /\ session = [h \in Sessions |-> Out]
    /\ codes = 0 /\ tokens = 0
    /\ crossedIn = FALSE /\ cutShort = FALSE

SessionStep(h) ==
    \/ \E resend \in BOOLEAN : SendOtp(h, resend)
    \/ SetSendLock(h) \/ ForgetCode(h) \/ LookForCode(h) \/ StoreCode(h)
    \/ SendSms(h) \/ ReleaseSendLock(h) \/ DropCode(h)
    \/ VerifyOtp(h) \/ CountStrike(h) \/ WriteStrike(h) \/ PutBack(h) \/ SpendCode(h)
    \/ RefreshToken(h) \/ WriteToken(h) \/ Answer(h)
    \/ Logout(h) \/ Blacklist(h)
    \/ SessionFails(h)

LoginNext ==
    \/ \E h \in Sessions : SessionStep(h)
    \/ KeyExpires

LoginSpec == LoginInit /\ [][LoginNext]_loginVars

-----------------------------------------------------------------------------
SessionPlaces == {"out", "lock", "forget", "look", "store", "send", "unlock",
                  "unlock_failed", "drop", "count", "strike", "put_back", "spend",
                  "token", "answer", "blacklist"}
Otps == [code : 0..MaxSms, tries : 0..MaxTries]

\* Every variable of the sign-in keeps its type.
LoginTypeOK ==
    /\ otpKey \in Otps
    /\ sendLock \in BOOLEAN
    /\ strikes \in 0..MaxStrikes
    /\ dbToken \in 0..MaxTokens
    /\ session \in [Sessions -> [at : SessionPlaces, resend : BOOLEAN, otp : Otps,
                                 count : 0..MaxStrikes, token : 0..MaxTokens]]
    /\ sms \in 0..MaxSms
    /\ device \in 0..MaxTokens
    /\ codes \in 0..MaxSms /\ tokens \in 0..MaxTokens
    /\ crossedIn \in BOOLEAN /\ cutShort \in BOOLEAN

AllOut == \A h \in Sessions : SessionAt(h, "out")

\* Between requests, as long as none was cut short, nobody is kept from asking
\* for a code by a request that is over (otp:send-lock); and if none overlapped
\* another either, the code that signs in is the one of the newest SMS (sendOtp,
\* verifyOtp), and the device keeps the token the table has (refreshToken, logout).
SignInWorks ==
    AllOut /\ ~cutShort =>
        /\ ~sendLock
        /\ ~crossedIn =>
             /\ otpKey # NoOtp => otpKey.code = sms
             /\ device = dbToken
=============================================================================
