-------------------------------- MODULE Logins --------------------------------
(***************************************************************************)
(* Logging in at the web server and the tokens it leaves (internal/web     *)
(* authTwitch, authTwitchCallback; internal/db/botstate auth.go;           *)
(* internal/bot validateTokens, SetBotTwitchToken).  Each login has a      *)
(* state of its own, kept in the database; two requests may carry the same *)
(* one back, also to a host of another brand.  A token is known by the     *)
(* login that granted it: refreshing it keeps the grant.                   *)
(***************************************************************************)
EXTENDS Naturals, FiniteSets

CONSTANTS
    Accounts,
    Hosts,
    Requests,       \* bound: callbacks at a time
    NoToken,
    MaxLogins,      \* bound: logins
    MaxCalls,       \* bound: callbacks
    MaxFailures     \* bound: failures, revocations, expired states

ASSUME LoginsAssumption ==
    /\ {MaxLogins, MaxCalls, MaxFailures} \subseteq Nat
    /\ NoToken \notin [host : Hosts, bot : BOOLEAN] \union [grant : 1 .. MaxLogins, bot : BOOLEAN]

VARIABLES
    began,      \* each login: what it was begun as
    states,     \* web_auth_states
    callbacks,  \* the requests of authTwitchCallback
    exchanged,  \* how often each login's code was exchanged
    calls,
    live,       \* the grants that Twitch still honours
    tokens,     \* twitch_tokens
    validator,  \* validateTokens: the rows it listed, the one it checks
    handler,    \* the token a message handler read
    failures

loginVars == <<began, states, callbacks, exchanged, calls, live, tokens, validator, handler, failures>>

Logins == 1 .. MaxLogins
AuthState == [host : Hosts, bot : BOOLEAN]
Token == [grant : Logins, bot : BOOLEAN]
Done == [pc |-> "done"]
Resting == [pc |-> "idle", rows |-> [a \in Accounts |-> NoToken]]

LoginsInit ==
    /\ began = [l \in Logins |-> NoToken]
    /\ states = [l \in Logins |-> NoToken]
    /\ callbacks = [r \in Requests |-> Done]
    /\ exchanged = [l \in Logins |-> 0]
    /\ calls = 0
    /\ live = {}
    /\ tokens = [a \in Accounts |-> NoToken]
    /\ validator = Resting
    /\ handler = NoToken
    /\ failures = 0

Failure == failures < MaxFailures /\ failures' = failures + 1
WebOnly == UNCHANGED <<live, tokens, validator, handler>>
WebIdle == UNCHANGED <<began, states, callbacks, exchanged, calls>>

(* The states of logins, each under a key of its own.                         *)
BotStateSetAuthState(l, state) == [states EXCEPT ![l] = state]
SetAuthState(l, state) == states' = BotStateSetAuthState(l, state)

(* Mutant: the state is read, and stays.                                      *)
TakeKeeps(l) == states

BotStateTakeAuthState(l) == [states EXCEPT ![l] = NoToken]
GetAuthState(l) == states' = BotStateTakeAuthState(l)

BotStateCleanupAuthStates(l) == states' = [states EXCEPT ![l] = NoToken]

(* The rows of tokens, one per account.                                       *)
NewTwitchToken(grant, bot) == [grant |-> grant, bot |-> bot]
OAuth2Token(token) == token.grant

UpsertTwitchToken(a, token) == [tokens EXCEPT ![a] = token]
SaveTwitchToken(a, token) == tokens' = UpsertTwitchToken(a, token)

(* A row that is there keeps the name of its bot; a new one has none.         *)
UpsertTwitchTokenPreservingMetadata(a, grant) ==
    [tokens EXCEPT ![a] = NewTwitchToken(grant, tokens[a] # NoToken /\ tokens[a].bot)]
SaveTwitchTokenPreservingMetadata(a, grant) == tokens' = UpsertTwitchTokenPreservingMetadata(a, grant)

DeleteTwitchTokenByID(a) == tokens' = [tokens EXCEPT ![a] = NoToken]
-----------------------------------------------------------------------------
authTwitch(l) ==
    /\ began[l] = NoToken /\ \A k \in Logins : k < l => began[k] # NoToken
    /\ \E h \in Hosts, bot \in BOOLEAN : SetAuthState(l, [host |-> h, bot |-> bot])
    /\ began' = [began EXCEPT ![l] = states'[l]]
    /\ UNCHANGED <<callbacks, exchanged, calls, failures>>
    /\ WebOnly

(* An hour has passed: the state is not found any more, and cleaned up.       *)
Expire(l) ==
    /\ states[l] # NoToken
    /\ BotStateCleanupAuthStates(l)
    /\ Failure
    /\ UNCHANGED <<began, callbacks, exchanged, calls>>
    /\ WebOnly

(* A browser comes back from Twitch, perhaps again, perhaps elsewhere.        *)
authTwitchCallback(r) ==
    /\ callbacks[r].pc = "done" /\ calls < MaxCalls
    /\ \E l \in Logins, h \in Hosts :
           /\ began[l] # NoToken
           /\ GetAuthState(l)
           /\ callbacks' = [callbacks EXCEPT ![r] =
                  IF states[l] = NoToken THEN Done
                  ELSE [pc |-> IF states[l].host = h THEN "exchange" ELSE "redirect",
                        login |-> l, state |-> states[l]]]
    /\ calls' = calls + 1
    /\ UNCHANGED <<began, exchanged, failures>>
    /\ WebOnly

(* Wrong host: the state is put back, unless that fails.                      *)
Redirect(r) ==
    LET l == callbacks[r].login
    IN /\ callbacks[r].pc = "redirect"
       /\ callbacks' = [callbacks EXCEPT ![r] = Done]
       /\ \/ SetAuthState(l, callbacks[r].state) /\ UNCHANGED failures
          \/ Failure /\ UNCHANGED states
       /\ UNCHANGED <<began, exchanged, calls>>
       /\ WebOnly

Exchange(r) ==
    LET l == callbacks[r].login
    IN /\ callbacks[r].pc = "exchange"
       /\ exchanged' = [exchanged EXCEPT ![l] = @ + 1]
       /\ \/ exchanged[l] = 0 /\ live' = live \union {l} /\ UNCHANGED failures
             /\ callbacks' = [callbacks EXCEPT ![r].pc = "save"]
          \/ Failure /\ UNCHANGED live
             /\ callbacks' = [callbacks EXCEPT ![r] = Done]
       /\ UNCHANGED <<began, states, calls, tokens, validator, handler>>

(* Who it is, says GetUserByToken; then the token replaces the account's.     *)
SaveLogin(r) ==
    /\ callbacks[r].pc = "save"
    /\ callbacks' = [callbacks EXCEPT ![r] = Done]
    /\ \/ /\ \E a \in Accounts :
                 SaveTwitchToken(a, NewTwitchToken(callbacks[r].login, callbacks[r].state.bot))
          /\ UNCHANGED failures
       \/ Failure /\ UNCHANGED tokens
    /\ UNCHANGED <<began, states, exchanged, calls, live, validator, handler>>

(* The account's owner disconnects the bot.                                   *)
Disconnect(l) ==
    /\ l \in live
    /\ live' = live \ {l}
    /\ Failure
    /\ WebIdle /\ UNCHANGED <<tokens, validator, handler>>

(* Mutant: the bots' tokens alone are listed.                                 *)
ListBotsOnly == [a \in Accounts |-> IF tokens[a] # NoToken /\ tokens[a].bot THEN tokens[a] ELSE NoToken]

ListTwitchTokens == tokens

BeginValidation ==
    /\ validator.pc = "idle"
    /\ \E a \in Accounts : tokens[a] # NoToken
    /\ validator' = [pc |-> "check", rows |-> ListTwitchTokens]
    /\ WebIdle /\ UNCHANGED <<live, tokens, handler, failures>>

Answers(l) == IF l \in live THEN {"valid", "unavailable"} ELSE {"dead", "unavailable"}

IsDead(answer) == answer = "dead"

Listed(a) == validator.rows[a]
Checked(a) ==
    LET rest == [validator.rows EXCEPT ![a] = NoToken]
    IN validator' = [pc |-> IF \A b \in Accounts : rest[b] = NoToken THEN "idle" ELSE "check", rows |-> rest]

(* One transaction of validateTokens: delete the account's token if the one   *)
(* that was listed is dead; save that one again if it is valid.               *)
Validate(a) ==
    /\ validator.pc = "check" /\ Listed(a) # NoToken
    /\ \E answer \in Answers(OAuth2Token(Listed(a))) :
           /\ CASE IsDead(answer) -> DeleteTwitchTokenByID(a)
                [] answer = "valid" -> SaveTwitchToken(a, Listed(a))
                [] OTHER -> UNCHANGED tokens
           /\ IF answer = "unavailable" THEN Failure ELSE UNCHANGED failures
    /\ Checked(a)
    /\ WebIdle /\ UNCHANGED <<live, handler>>

(* The database fails: the rest of the list waits for the next time.          *)
ValidateFails ==
    /\ validator.pc = "check"
    /\ validator' = Resting
    /\ Failure
    /\ WebIdle /\ UNCHANGED <<live, tokens, handler>>

(* A handler reads the token and refreshes it at Twitch, ...                  *)
BotTwitchToken(a) ==
    /\ handler = NoToken
    /\ tokens[a] # NoToken /\ tokens[a].bot /\ OAuth2Token(tokens[a]) \in live
    /\ handler' = [account |-> a, grant |-> OAuth2Token(tokens[a])]
    /\ WebIdle /\ UNCHANGED <<live, tokens, validator, failures>>

(* ... and saves it; a row that is gone meanwhile is inserted anew, as        *)
(* nobody's bot.                                                              *)
SetBotTwitchToken ==
    /\ handler # NoToken
    /\ SaveTwitchTokenPreservingMetadata(handler.account, handler.grant)
    /\ handler' = NoToken
    /\ WebIdle /\ UNCHANGED <<live, validator, failures>>

(* No refresh was needed, or the transaction was rolled back.                 *)
HandlerEnds ==
    /\ handler # NoToken
    /\ handler' = NoToken
    /\ WebIdle /\ UNCHANGED <<live, tokens, validator, failures>>

Validation == BeginValidation \/ \E a \in Accounts : Validate(a)

LoginsNext ==
    \/ \E l \in Logins : authTwitch(l) \/ Expire(l) \/ Disconnect(l)
    \/ \E r \in Requests :
           authTwitchCallback(r) \/ Redirect(r) \/ Exchange(r) \/ SaveLogin(r)
    \/ Validation \/ ValidateFails
    \/ \E a \in Accounts : BotTwitchToken(a)
    \/ SetBotTwitchToken \/ HandlerEnds

LoginsFairness == WF_loginVars(Validation)

LoginsSpec == LoginsInit /\ [][LoginsNext]_loginVars /\ LoginsFairness
-----------------------------------------------------------------------------
LoginsTypeOK ==
    /\ states \in [Logins -> AuthState \union {NoToken}]
    /\ tokens \in [Accounts -> Token \union {NoToken}]
    /\ \A a \in Accounts : tokens[a] # NoToken => exchanged[tokens[a].grant] = 1
    /\ \A l \in Logins : states[l] # NoToken => states[l] = began[l]

(* A login is exchanged once, whoever brings its state back, where and how    *)
(* often (authTwitchCallback, GetAuthState).                                  *)
ExchangedOnce == \A l \in Logins : exchanged[l] <= 1

(* A token is deleted only when it is dead, or is not the one that was listed *)
(* any more: an account that logged in meanwhile can lose its new token       *)
(* (validateTokens).                                                          *)
DeletesDeadOrReplaced ==
    [][\A a \in Accounts :
           (tokens[a] # NoToken /\ tokens'[a] = NoToken) =>
               (tokens[a].grant \notin live \/ tokens[a] # Listed(a))]_loginVars

(* A token that is dead does not stay, though a handler or an older listing   *)
(* writes it again (validateTokens).                                          *)
DeadTokensGo == <>[](\A a \in Accounts : tokens[a] = NoToken \/ tokens[a].grant \in live)

(* A token in the table was granted by one exchange of the login that began   *)
(* as its state says.                                                         *)
LoginsInv == LoginsTypeOK /\ ExchangedOnce

(* Dead tokens go; a live one goes only where an older token of its account   *)
(* was listed and is dead.  That an older one overwrites it is not excluded.  *)
TokensSettle == DeletesDeadOrReplaced /\ DeadTokensGo
=============================================================================
