---------------------------- MODULE ClientState ----------------------------
(***************************************************************************)
(* What a client signs (State in nodes/client/src/main.rs, with            *)
(* dispatch_chat_action of protocol.rs): the actions on a chat, each with  *)
(* a number that has to be greater than the last one the chat has seen     *)
(* from this user, and the vault, saved three seconds after its last       *)
(* change under a number of its own.                                       *)
(*                                                                         *)
(* The number of a chat's actions is not part of the saved vault: after a  *)
(* login it starts from zero, and the refusal of an action tells the right *)
(* one.  The servers are one copy here (see ChatBlocks and Mailboxes for   *)
(* what keeps several in step), which takes requests in the order of       *)
(* ClientNode, and answers at any time.  A vault is the number of its last *)
(* change.                                                                 *)
(***************************************************************************)
EXTENDS Integers, Sequences

CONSTANTS MaxActions, MaxOthers, MaxEdits, MaxLosses, MaxLogins     \* bounds

ASSUME StateAssumption == {MaxActions, MaxOthers, MaxEdits, MaxLosses, MaxLogins} \subseteq Nat

VARIABLES
    action_no,      \* of the chat, in the client's vault
    action,         \* action[k]: what has become of the k-th action
    asked,          \* actions on their way to the server, with their numbers
    answers,        \* answers on their way back
    member_action,  \* Member::action: the greatest number the chat has seen from the user
    effects,        \* history, effects[k]: how often the chat has taken action k
    alone,          \* history: actions no other one of the user was concurrent with
    vault, timeout, vault_version,  \* of the client
    saves,          \* SetVault requests on their way
    saved,          \* the profile at the server: vault and version
    lost,           \* history: the last save was lost
    raced,          \* history: a login was concurrent with a save
    logins, others, losses          \* counters

actionVars == <<action_no, action, asked, answers, member_action, effects, alone, others>>
vaultVars  == <<vault, timeout, vault_version, saves, saved, lost, raced, losses>>
stateVars  == <<actionVars, vaultVars, logins>>

Actions == 1 .. MaxActions
Underway == {k \in Actions : \/ action[k] \in {"first", "second"}
                             \/ \E i \in DOMAIN asked : asked[i].act = k}

StateInit ==
    /\ action_no = 0 /\ action = [k \in Actions |-> "new"] /\ asked = <<>> /\ answers = {}
    /\ member_action = 0 /\ effects = [k \in Actions |-> 0] /\ alone = Actions
    /\ vault = 0 /\ timeout = FALSE /\ vault_version = 1 /\ saves = <<>>
    /\ saved = [vault |-> 0, version |-> 0] /\ lost = FALSE /\ raced = FALSE
    /\ logins = 0 /\ others = 0 /\ losses = 0

-----------------------------------------------------------------------------
(* Actions on a chat.                                                       *)

\* Mutant of NextNonce: the number the chat has seen last is taken, not the one after it.
NextNonceSame(now, correct) == IF correct = -1 THEN now ELSE correct

\* next_chat_proof signs with this number, and the next action gets the one after it.
\* correct is what a refusal told, or -1.
NextNonce(now, correct) == IF correct = -1 THEN now ELSE correct + 1

\* dispatch_chat_action, up to its first request.  skipped: how many proofs were made before
\* it and not used, as send_normal_message does and the invitation of a user does not.
Act(k, skipped) ==
    /\ action[k] = "new" /\ \A j \in 1 .. k - 1 : action[j] # "new"
    /\ LET nonce == NextNonce(action_no + skipped, -1)
       IN  /\ asked' = Append(asked, [act |-> k, nonce |-> nonce])
           /\ action_no' = nonce + 1
    /\ action' = [action EXCEPT ![k] = "first"]
    /\ alone' = IF Underway = {} THEN alone ELSE alone \ (Underway \cup {k})
    /\ UNCHANGED <<answers, member_action, effects, others, vaultVars, logins>>

\* The server: the number goes forward, also when the action is refused after that.
Perform ==
    /\ asked # <<>> /\ asked' = Tail(asked)
    /\ LET r == Head(asked)
           answer(what, nonce) == answers' = IF action[r.act] = "gone" THEN answers
               ELSE answers \cup {[act |-> r.act, what |-> what, nonce |-> nonce]}
       IN  IF r.nonce > member_action
           THEN /\ member_action' = r.nonce
                /\ \/ effects' = [effects EXCEPT ![r.act] = @ + 1] /\ answer("ok", 0)
                   \/ answer("error", 0) /\ UNCHANGED effects
           ELSE answer("invalid", member_action) /\ UNCHANGED <<member_action, effects>>
    /\ UNCHANGED <<action_no, action, alone, others, vaultVars, logins>>

\* Another client of the same user acts on the chat.
ActElsewhere ==
    /\ others < MaxOthers /\ others' = others + 1
    /\ member_action' = member_action + 1
    /\ alone' = alone \ Underway
    /\ UNCHANGED <<action_no, action, asked, answers, effects, vaultVars, logins>>

\* Only the first refusal of the number is followed by another try.
Retries(a) == action[a.act] = "first" /\ a.what = "invalid"

\* Any other answer ends the action; an error of the first try is reported as success.
Answered(a) ==
    /\ a \in answers /\ answers' = answers \ {a}
    /\ IF Retries(a)
       THEN LET nonce == NextNonce(action_no, a.nonce)
            IN  /\ asked' = Append(asked, [act |-> a.act, nonce |-> nonce])
                /\ action_no' = nonce + 1
                /\ action' = [action EXCEPT ![a.act] = "second"]
       ELSE /\ action' = [action EXCEPT ![a.act] = CASE a.what = "ok"    -> "done"
                                                     [] a.what = "error" -> "refused"
                                                     [] OTHER            -> "stale"]
            /\ UNCHANGED <<asked, action_no>>
    /\ UNCHANGED <<member_action, effects, alone, others, vaultVars, logins>>

-----------------------------------------------------------------------------
(* The vault.                                                               *)

\* Every change of the vault sets the clock back to three seconds.
Edit ==
    /\ vault < MaxEdits /\ vault' = vault + 1
    /\ timeout' = TRUE
    /\ UNCHANGED <<actionVars, vault_version, saves, saved, lost, raced, losses, logins>>

\* Mutant of VaultNonce: the number is not used up.
VaultNonceKept == vault_version

\* next_profile_proof uses the number up, whether the vault will be stored or not.
VaultNonce == vault_version + 1

\* The time is over: the vault as it is now is sent.
SaveVault ==
    /\ timeout /\ timeout' = FALSE
    /\ saves' = Append(saves, [vault |-> vault, version |-> vault_version])
    /\ vault_version' = VaultNonce
    /\ UNCHANGED <<actionVars, vault, saved, lost, raced, losses, logins>>

SetVault ==
    /\ saves # <<>> /\ saves' = Tail(saves)
    /\ saved' = IF Head(saves).version > saved.version THEN Head(saves) ELSE saved
    /\ lost' = FALSE
    /\ UNCHANGED <<actionVars, vault, timeout, vault_version, raced, losses, logins>>

\* The request gets lost or fails, which is shown to the user and not tried again.
LoseVault ==
    /\ saves # <<>> /\ saves' = Tail(saves)
    /\ losses < MaxLosses /\ losses' = losses + 1
    /\ lost' = TRUE
    /\ UNCHANGED <<actionVars, vault, timeout, vault_version, saved, raced, logins>>

-----------------------------------------------------------------------------

\* The page is loaded again, and the client logs in: it goes on with the saved vault, and
\* with the number after the saved one.  What is under way may still reach the server.
LogIn ==
    /\ logins < MaxLogins /\ logins' = logins + 1
    /\ action_no' = 0 /\ answers' = {}
    /\ action' = [k \in Actions |-> IF action[k] \in {"first", "second"} THEN "gone" ELSE action[k]]
    /\ vault' = saved.vault /\ vault_version' = saved.version + 1
    /\ timeout' = FALSE /\ lost' = FALSE
    /\ raced' = (raced \/ saves # <<>>)
    /\ UNCHANGED <<asked, member_action, effects, alone, others, saves, saved, losses>>

\* Actions and vault only meet in LogIn.
ActingNext == \/ \E k \in Actions, skipped \in {0, 1} : Act(k, skipped)
              \/ Perform \/ ActElsewhere \/ (\E a \in answers : Answered(a)) \/ LogIn

SavingNext == Edit \/ SaveVault \/ SetVault \/ LoseVault \/ LogIn

-----------------------------------------------------------------------------

\* An action that was concurrent with no other one of the user is not lost for its number:
\* whatever the client's number was before, the first refusal brings it into step, and what
\* is answered with success was taken, once.
LoneActionTaken ==
    \A k \in alone : action[k] # "stale" /\ (action[k] = "done" => effects[k] = 1)

\* When the vault has been sent and nothing is under way, the server has its last state,
\* unless the last save failed, or a login raced with a save: earlier failures and logins do
\* no harm to the later saves.
VaultSaved == ~timeout /\ saves = <<>> /\ ~lost /\ ~raced => saved.vault = vault
=============================================================================
