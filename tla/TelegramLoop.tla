----------------------------- MODULE TelegramLoop -----------------------------
(***************************************************************************)
(* The Telegram side of jmcpd (apps/jmcpd/src/main.rs, telegram_helpers.rs,*)
(* voice_approval.rs, voice_runtime.rs over crates/jmcp-approval-telegram):*)
(* one poll loop that fetches the bot's updates, remembers in a file how   *)
(* far it has come, and submits and decides work orders on behalf of the   *)
(* people who write to the bot, beside the HTTP surface of the same        *)
(* daemon.                                                                 *)
(*                                                                         *)
(* The store is ApprovalFlow's, with its lock, its clock and its requests  *)
(* that may stop between two transactions.  Telegram itself is external:   *)
(* it keeps the updates in the order of their ids until a getUpdates with  *)
(* a higher offset confirms them.                                          *)
(*                                                                         *)
(* Update ids are 1 .. MaxUpdates.  An offset or a file of 0 is none.      *)
(***************************************************************************)
EXTENDS ApprovalFlow, Sequences

CONSTANTS
    Users, Chats,  \* Telegram users and chats
    HttpActors,    \* the actors of the HTTP surface
    EnvFiles,      \* what the telegram env file may say, see ParseEnv
    Messages,      \* what people may write to the bot
    MaxUpdates,    \* bound on the updates
    MaxFaults,     \* bound on crashes, failed writes and store errors
    None           \* the absent value

TelegramActors == [user : Users, chat : Chats]

Words == { "approve", "reject", "risky" }

MessageRows ==
    [kind : { "submit", "query" }, from : TelegramActors] \cup
    [kind : { "typed" }, from : TelegramActors, token : Tokens, decision : Decisions] \cup
    [kind : { "voice" }, from : TelegramActors, words : SUBSET Words,
     spoken : SUBSET Tokens, clear : BOOLEAN]

ASSUME ActorsAssumption ==
    /\ HttpActors \subseteq Actors
    /\ Actors \ HttpActors \subseteq TelegramActors
    /\ \A a \in Actors \ HttpActors : ApproverOf[a] = a.user
ASSUME MessagesAssumption ==
    Messages \subseteq { m \in MessageRows : m.from \in Actors \ HttpActors }
ASSUME BoundsAssumption == MaxUpdates \in Nat /\ MaxFaults \in Nat

VARIABLES
    config,    \* the allow-list the daemon runs with, None if it has no bot
    inbox,     \* Telegram: every update so far, in the order of their ids
    confirmed, \* Telegram: updates below this id are not served again
    file,      \* the offset file
    offset,    \* the loop's own offset
    batch,     \* the updates of the last answer that are still to be looked at
    task,      \* the update being handled, with the handler's locals
    book,      \* the voice book: the last token minted for each user
    shown,     \* tokens that were sent out in a prompt
    minted,    \* history: the update each token was minted for, in this life
               \* of the daemon
    begun,     \* history: how often each update was begun
    done,      \* history: the updates whose handler has returned
    torn,      \* history: a crash met a half-written offset file
    faults     \* history: crashes, failed writes and store errors so far

botVars == << config, inbox, confirmed, file, offset, batch, task, book,
              shown, minted, begun, done, torn, faults >>
allVars == << now, orders, approvals, challenges, handler,
              config, inbox, confirmed, file, offset, batch, task, book,
              shown, minted, begun, done, torn, faults >>

Updates == 1 .. MaxUpdates

NoTask == [pc |-> "none"]

TaskTypes ==
    { NoTask } \cup
    [pc : { "handle" }, id : Updates] \cup
    [pc : { "gate", "minting" }, id : Updates, order : Orders, asked : 0 .. MaxTime] \cup
    [pc : { "prompt" }, id : Updates, token : Tokens] \cup
    [pc : { "decide", "deciding" }, id : Updates, token : Tokens, decision : Decisions]

BotTypeOK ==
    /\ config = None \/ config \in [users : SUBSET Users, chats : SUBSET Chats]
    /\ inbox \in Seq(Messages) /\ Len(inbox) =< MaxUpdates
    /\ { confirmed, file, offset } \subseteq 0 .. MaxUpdates + 1
    /\ batch \in Seq(Updates)
    /\ task \in TaskTypes
    /\ book \in [Users -> Tokens \cup { None }]
    /\ shown \subseteq Tokens
    /\ minted \in [Tokens -> 0 .. MaxUpdates]
    /\ begun \in [Updates -> 0 .. MaxFaults + 1]
    /\ done \subseteq Updates
    /\ torn \in BOOLEAN
    /\ faults \in 0 .. MaxFaults

AllTypeOK == TypeOK /\ BotTypeOK

-----------------------------------------------------------------------------
(* The env file: a sequence of lines, [key, value].                        *)

EnvLines ==
    [key : { "token", "empty_token", "garbled_list" }] \cup
    [key : { "users" }, ids : SUBSET Users] \cup
    [key : { "chats" }, ids : SUBSET Chats]

ASSUME EnvFilesAssumption == \A lines \in EnvFiles : lines \in Seq(EnvLines)

(* Every list of ids adds to the ones before it.                           *)
IdList(lines, key) ==
    UNION { lines[i].ids : i \in { j \in DOMAIN lines : lines[j].key = key } }

(* The last token given counts; an empty one is none at all.               *)
HasBotToken(lines) ==
    \E i \in DOMAIN lines :
        /\ lines[i].key = "token"
        /\ \A j \in i + 1 .. Len(lines) : lines[j].key # "empty_token"

(* from_env_contents: an id that is no number, a missing token or an empty *)
(* allow-list refuse the file, and the daemon does not start.              *)
ParseEnv(lines) ==
    IF \/ \E i \in DOMAIN lines : lines[i].key = "garbled_list"
       \/ ~ HasBotToken(lines)
       \/ IdList(lines, "users") = {} /\ IdList(lines, "chats") = {}
    THEN None
    ELSE [users |-> IdList(lines, "users"), chats |-> IdList(lines, "chats")]

(* TelegramConfig::is_allowed: an empty list admits everybody, two empty   *)
(* lists nobody.                                                           *)
IsAllowed(actor) ==
    /\ config.users # {} \/ config.chats # {}
    /\ config.users = {} \/ actor.user \in config.users
    /\ config.chats = {} \/ actor.chat \in config.chats

BotInit ==
    /\ Init
    /\ config \in { ParseEnv(lines) : lines \in EnvFiles }
    /\ inbox = << >>
    /\ confirmed = 1
    /\ file = 0
    /\ offset = 0
    /\ batch = << >>
    /\ task = NoTask
    /\ book = [u \in Users |-> None]
    /\ shown = {}
    /\ minted = [c \in Tokens |-> 0]
    /\ begun = [u \in Updates |-> 0]
    /\ done = {}
    /\ torn = FALSE
    /\ faults = 0

-----------------------------------------------------------------------------
(* Telegram.                                                               *)

Quiet == task = NoTask /\ batch = << >>

(* Somebody writes to the bot.  A typed or spoken token is one that was    *)
(* sent out.  Nothing looks at the inbox before the next getUpdates, so    *)
(* what is written while the loop is at work is written here just before   *)
(* that.                                                                   *)
Write(m) ==
    /\ Quiet
    /\ Len(inbox) < MaxUpdates
    /\ m.kind = "typed" => m.token \in shown
    /\ m.kind = "voice" => m.spoken \subseteq shown
    /\ inbox' = Append(inbox, m)
    /\ UNCHANGED << vars, config, confirmed, file, offset, batch, task, book,
                    shown, minted, begun, done, torn, faults >>

(* What a getUpdates with offset `from` leaves to be served, and the       *)
(* updates it serves.                                                      *)
ConfirmedBy(from) == IF from > confirmed THEN from ELSE confirmed

ServedFrom(from) ==
    [i \in 1 .. Len(inbox) + 1 - ConfirmedBy(from) |-> ConfirmedBy(from) + i - 1]

-----------------------------------------------------------------------------
(* telegram_poll_loop.                                                     *)

(* One getUpdates.  A failed one may still have reached Telegram; the loop *)
(* asks again with the same offset.                                        *)
Fetch(answered) ==
    /\ Quiet
    /\ confirmed' = ConfirmedBy(offset)
    /\ batch' = IF answered THEN ServedFrom(offset) ELSE << >>
    /\ UNCHANGED << vars, config, inbox, file, offset, task, book,
                    shown, minted, begun, done, torn, faults >>

(* The next update: its offset goes to disk, to memory, and only then is   *)
(* it looked at.                                                           *)
PersistAs(next) ==
    /\ task = NoTask
    /\ batch # << >>
    /\ file' = next
    /\ offset' = next
    /\ batch' = Tail(batch)
    /\ task' = [pc |-> "handle", id |-> Head(batch)]
    /\ begun' = [begun EXCEPT ![Head(batch)] = @ + 1]
    /\ UNCHANGED << vars, config, inbox, confirmed, book,
                    shown, minted, done, torn, faults >>

(* Slips: the offset is the id of the update itself, as if it were written *)
(* when the handler has returned; or one too far.                          *)
PersistOwnId  == PersistAs(Head(batch))
PersistBeyond == PersistAs(Head(batch) + 2)

Persist == PersistAs(Head(batch) + 1)

(* The write fails, at worst after it has truncated the file.              *)
PersistFailsThen(rest) ==
    /\ faults < MaxFaults
    /\ task = NoTask
    /\ batch # << >>
    /\ file' \in { file, 0 }
    /\ batch' = rest
    /\ faults' = faults + 1
    /\ UNCHANGED << vars, config, inbox, confirmed, offset, task, book,
                    shown, minted, begun, done, torn >>

(* A slip: an update whose offset cannot be written is passed over.        *)
PersistFailsSkipping == PersistFailsThen(Tail(batch))

(* The rest of the batch is dropped, to be fetched again.                  *)
PersistFails == PersistFailsThen(<< >>)

-----------------------------------------------------------------------------
(* handle_telegram_message.  `task` is the update at hand, `message` what  *)
(* it says.  A reply that cannot be sent loses the reply and nothing else, *)
(* so replies are left out, but for the prompt that carries the token.     *)

message == inbox[task.id]
actor   == message.from
At(pc)  == task.pc = pc

Handling(kind) == At("handle") /\ IsAllowed(actor) /\ message.kind = kind

EndTask ==
    /\ task' = NoTask
    /\ done' = done \cup { task.id }

loopVars == << config, inbox, confirmed, file, offset, batch >>

(* Not for us: a stranger, /help, /status, or no text at all.              *)
HandleOther ==
    /\ At("handle")
    /\ ~ IsAllowed(actor) \/ message.kind = "query"
    /\ EndTask
    /\ UNCHANGED << vars, loopVars, book, shown, minted, begun, torn, faults >>

(* /submit: submit_from_telegram signs and submits ...                     *)
HandleSubmit ==
    /\ Handling("submit")
    /\ \E w \in Orders :
         /\ Submit(w)
         /\ task' = [pc |-> "gate", id |-> task.id, order |-> w, asked |-> now]
    /\ UNCHANGED << loopVars, book, shown, minted, begun, done, torn, faults >>

(* ... or is rejected, for its payload, its subject or its kind.           *)
HandleSubmitRejected ==
    /\ Handling("submit")
    /\ EndTask
    /\ UNCHANGED << vars, loopVars, book, shown, minted, begun, torn, faults >>

(* The challenge is requested once the submission has released the lock;   *)
(* the HTTP surface may have opened the gate by then, or decided it.       *)
RequestChallenge ==
    /\ At("gate")
    /\ \E ttl \in TTLs :
         \/ OpenGate(task.order, actor, ttl)
         \/ JoinGate(task.order, actor, ttl, task.asked)
    /\ task' = [task EXCEPT !.pc = "minting"]
    /\ UNCHANGED << loopVars, book, shown, minted, begun, done, torn, faults >>

RequestChallengeRefused ==
    /\ At("gate")
    /\ handler = Idle
    /\ ~ ( /\ orders[task.order] \in RequireApprovalFrom \cup { "AwaitingApproval" }
           /\ TokenLeft )
    /\ EndTask
    /\ UNCHANGED << vars, loopVars, book, shown, minted, begun, torn, faults >>

MintApproval ==
    /\ At("minting")
    /\ CreateRecordApproval
    /\ UNCHANGED botVars

MintChallenge ==
    /\ At("minting")
    /\ CreateRecordChallenge
    /\ \E c \in Tokens :
         /\ challenges'[c] # challenges[c]
         /\ minted' = [minted EXCEPT ![c] = task.id]
         /\ task' = [pc |-> "prompt", id |-> task.id, token |-> c]
    /\ UNCHANGED << loopVars, book, shown, begun, done, torn, faults >>

(* The token goes into the voice book, and out to the chat.  If the prompt *)
(* cannot be sent nobody can type the token.                               *)
PromptRemembering(token, sent) ==
    /\ At("prompt")
    /\ book' = [book EXCEPT ![actor.user] = token]
    /\ shown' = IF sent THEN shown \cup { task.token } ELSE shown
    /\ EndTask
    /\ UNCHANGED << vars, loopVars, minted, begun, torn, faults >>

(* A slip: the first challenge stays in the book until it is answered.     *)
PromptKeepingFirst(sent) ==
    PromptRemembering(IF book[actor.user] = None THEN task.token ELSE book[actor.user], sent)

(* One challenge per user: a new one replaces the one before.              *)
Prompt(sent) == PromptRemembering(task.token, sent)

-----------------------------------------------------------------------------
(* Decisions, typed or spoken.                                             *)

HandleTyped ==
    /\ Handling("typed")
    /\ task' = [pc |-> "decide", id |-> task.id, token |-> message.token,
                decision |-> message.decision]
    /\ UNCHANGED << vars, loopVars, book, shown, minted, begun, done, torn, faults >>

HighRisk == "risky" \in message.words

(* parse_voice_reply, for the challenge the book holds for the speaker.    *)
VoiceAnswer(c) ==
    LET said == message.words \cap { "approve", "reject" } IN
    IF Lapsed(challenges[c].expires, now)  THEN "Expired"
    ELSE IF ~ message.clear                THEN "LowConfidence"
    ELSE IF Cardinality(said) # 1          THEN "UnknownDecision"
    ELSE IF HighRisk /\ c \notin message.spoken THEN "ConfirmationRequired"
    ELSE IF said = { "approve" }           THEN "Approved" ELSE "Rejected"

(* Voice is disabled, the download or the transcription fails, there is no *)
(* challenge to answer, or the note does not decide it.                    *)
HandleVoiceUndecided ==
    /\ Handling("voice")
    /\ EndTask
    /\ UNCHANGED << vars, loopVars, book, shown, minted, begun, torn, faults >>

HandleVoice ==
    /\ Handling("voice")
    /\ book[actor.user] # None
    /\ VoiceAnswer(book[actor.user]) \in Decisions
    /\ task' = [pc |-> "decide", id |-> task.id, token |-> book[actor.user],
                decision |-> VoiceAnswer(book[actor.user])]
    /\ UNCHANGED << vars, loopVars, book, shown, minted, begun, done, torn, faults >>

(* The end of decide_from_telegram, whatever it says.  A spoken answer is  *)
(* then forgotten: the challenge may still be pending, and the token can   *)
(* still be typed.                                                         *)
EndDecision ==
    /\ EndTask
    /\ book' = IF message.kind = "voice" THEN [book EXCEPT ![actor.user] = None] ELSE book

DecideTokenAs(who) ==
    /\ At("decide")
    /\ DecideLookup(task.token, who, task.decision)
    /\ task' = [task EXCEPT !.pc = "deciding"]
    /\ UNCHANGED << loopVars, book, shown, minted, begun, done, torn, faults >>

(* A slip: a token counts as its holder's, wherever it is said.            *)
DecideTokenAsHolder == DecideTokenAs(challenges[task.token].actor)

(* decide_from_telegram, as whoever wrote, in the chat it was written in.  *)
DecideToken == DecideTokenAs(actor)

DecideTokenUnanswered ==
    /\ At("decide")
    /\ handler = Idle
    /\ \/ DecideExpired(task.token, actor)
       \/ /\ ChallengeAnswer(challenges[task.token], actor, now) \in { "AlreadyUsed", "WrongApprover" }
          /\ UNCHANGED vars
    /\ EndDecision
    /\ UNCHANGED << loopVars, shown, minted, begun, torn, faults >>

Deciding ==
    /\ At("deciding")
    /\ DecideApply \/ DecideRecordApproval
    /\ UNCHANGED botVars

Decided ==
    /\ At("deciding")
    /\ DecideRefused \/ DecideRecordChallenge
    /\ EndDecision
    /\ UNCHANGED << loopVars, shown, minted, begun, torn, faults >>

-----------------------------------------------------------------------------
(* Store errors, crashes, the HTTP surface.                                *)

LoopHolds == task.pc \in { "minting", "deciding" }

(* The loop's request fails at its first read or write, or at a later      *)
(* transaction; the handler gives up, or tells the approver that the state *)
(* could not be updated.                                                   *)
StoreFails ==
    /\ faults < MaxFaults
    /\ \/ LoopHolds /\ Interrupt
       \/ (At("gate") \/ At("decide")) /\ handler = Idle /\ UNCHANGED vars
    /\ EndDecision
    /\ faults' = faults + 1
    /\ UNCHANGED << loopVars, shown, minted, begun, torn >>

(* jmcpd dies and is started again, which reads the offset file.  A crash  *)
(* within the write leaves it truncated, which reads as no offset; so does *)
(* a write that failed before.                                             *)
Crash ==
    /\ faults < MaxFaults
    /\ file' \in IF task = NoTask /\ batch # << >> THEN { file, 0 } ELSE { file }
    /\ torn' = (torn \/ (file' = 0 /\ offset # 0))
    /\ offset' = file'
    /\ batch' = << >>
    /\ task' = NoTask
    /\ book' = [u \in Users |-> None]
    /\ minted' = [c \in Tokens |-> 0]
    /\ handler' = Idle
    /\ faults' = faults + 1
    /\ UNCHANGED << now, orders, approvals, challenges, config, inbox, confirmed,
                    shown, begun, done >>

HttpRequest ==
    /\ \E a \in HttpActors :
         \/ \E w \in Orders, ttl \in TTLs :
              \/ OpenGate(w, a, ttl)
              \/ \E asked \in 0 .. now : JoinGate(w, a, ttl, asked)
         \/ \E c \in Tokens :
              \/ DecideExpired(c, a)
              \/ \E decision \in Decisions : DecideLookup(c, a, decision)
    /\ UNCHANGED botVars

HttpStep ==
    /\ ~ LoopHolds
    /\ HandlerStep
    /\ UNCHANGED botVars

Clock == Tick /\ UNCHANGED botVars

-----------------------------------------------------------------------------
LoopStep ==
    \/ Persist
    \/ HandleOther \/ HandleSubmit \/ HandleSubmitRejected \/ HandleTyped
    \/ HandleVoice \/ HandleVoiceUndecided
    \/ RequestChallenge \/ RequestChallengeRefused
    \/ MintApproval \/ MintChallenge
    \/ \E sent \in BOOLEAN : Prompt(sent)
    \/ DecideToken \/ DecideTokenUnanswered \/ Deciding \/ Decided

BotNext ==
    /\ config # None
    /\ \/ \E m \in Messages : Write(m)
       \/ \E answered \in BOOLEAN : Fetch(answered)
       \/ LoopStep
       \/ PersistFails \/ StoreFails \/ Crash
       \/ HttpRequest \/ HttpStep \/ Clock

BotSpec == BotInit /\ [][BotNext]_allVars

-----------------------------------------------------------------------------
(* Properties. *)

(* No update is handled twice, whatever is lost on the way to or from      *)
(* Telegram and wherever the daemon is killed, except that a crash met an  *)
(* offset file that a write had truncated: then the batch that was not     *)
(* confirmed yet comes again, and what was submitted is submitted again    *)
(* (telegram_poll_loop, persist_telegram_offset).                          *)
HandledOnce == \A u \in Updates : begun[u] > 1 => torn

(* The loop never runs ahead of its work: every update that Telegram, the  *)
(* file or the loop counts as seen has been begun, in the order of ids,    *)
(* and each fault has cost at most one update its handling.                *)
NoneLost ==
    /\ \A u \in Updates : u < confirmed \/ u < file \/ u < offset => begun[u] > 0
    /\ Cardinality({ u \in Updates : begun[u] > 0 /\ u \notin done }) =<
         faults + (IF task = NoTask THEN 0 ELSE 1)

SpokenDecision == task.pc \in { "decide", "deciding" } /\ message.kind = "voice"

(* A spoken answer decides the last request the same person made before    *)
(* speaking, in this life of the daemon: never an older one still open,    *)
(* nor one made since, nor one from before a restart, whatever comes       *)
(* twice; and a risky one only with that very token spoken                 *)
(* (VoiceChallengeBook, parse_voice_reply).                                *)
VoiceAnswersLastPrompt ==
    SpokenDecision =>
        /\ minted[task.token] \in 1 .. task.id - 1
        /\ \A c \in Tokens :
             /\ minted[c] \in 1 .. task.id - 1
             /\ challenges[c].actor.user = actor.user
             => minted[c] =< minted[task.token]
        /\ "risky" \in message.words => task.token \in message.spoken

(* A token the loop spends is spent by the person it was made for, in the  *)
(* chat it was made in, who is on every list the env file gave: the voice  *)
(* book knows people only, not their chats (decide_from_telegram).         *)
AnsweredByHolder ==
    [][\A c \in Tokens :
         LoopHolds /\ challenges[c].state = "Pending" /\ challenges'[c].state \in Decisions =>
             /\ challenges[c].actor = actor
             /\ config.users = {} \/ actor.user \in config.users
             /\ config.chats = {} \/ actor.chat \in config.chats]_allVars

(* The loop and the HTTP surface together do nothing with the store that   *)
(* ApprovalFlow does not do, so what holds of ApprovalFlow holds here,     *)
(* SingleDecision above all: a gate that was opened or decided over HTTP   *)
(* while the loop had let go of the lock, and one answer typed, one spoken *)
(* and one over HTTP, still leave one decision (submit_from_telegram,      *)
(* decide_from_telegram).                                                  *)
FollowsApprovalFlow == Spec
=============================================================================
