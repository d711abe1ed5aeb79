------------------------------- MODULE Services -------------------------------
(* The smaller services side by side. They share no state that a property is   *)
(* about, so a behaviour is of one of them, its scene, and the others rest.    *)
(* VoiceLines is extended and keeps its names; the others are instances, their *)
(* variables and constants under names of their own.                           *)
EXTENDS VoiceLines

CONSTANTS
    \* StoredAudio
    Savers, Deleters, Key, Table, Tables,
    \* Throttle: its Limit, Window and MaxTime
    Callers, Guards, AttemptLimit, AttemptWindow, MaxCount, MaxTicks,
    \* Accounts: its Requests
    Users, Identities, Provider, Mailed, AccountRequests, Unlinkers, Nobody, MaxCodes,
    MaxPasswords,
    \* Pricing
    Tariffs, NoRow, Versions, MaxQuantity, Unmetered,
    \* ServiceRequests: its Requests, Window and MaxTime
    SignedRequests, Handlers, SigningWindow, Ahead, Behind, BodyTime, Lifetime, MaxSeconds

VARIABLES
    scene,      \* the service the behaviour is of
    r_files, r_rows, r_temp, r_spc, r_dpc, r_gone, r_counted, r_relied, r_broken,
    h_guard, h_now, h_counter, h_pc, h_told, h_tripped, h_letIn, h_failures,
    u_user, u_owner, u_codes, u_inbox, u_issued, u_tokens, u_passwords, u_req, u_failures,
    p_book, p_published, p_over, p_sale, p_ceiling, p_used, p_hold, p_charged, p_clamped,
    q_now, q_key, q_stamp, q_nonce, q_pc, q_req, q_checked, q_honoured, q_failures

r_vars == <<
    r_files, r_rows, r_temp, r_spc, r_dpc, r_gone, r_counted, r_relied, r_broken >>
h_vars == <<
    h_guard, h_now, h_counter, h_pc, h_told, h_tripped, h_letIn, h_failures >>
u_vars == <<
    u_user, u_owner, u_codes, u_inbox, u_issued, u_tokens, u_passwords, u_req, u_failures >>
p_vars == <<
    p_book, p_published, p_over, p_sale, p_ceiling, p_used, p_hold, p_charged, p_clamped >>
q_vars == <<
    q_now, q_key, q_stamp, q_nonce, q_pc, q_req, q_checked, q_honoured, q_failures >>

R == INSTANCE StoredAudio WITH
    files <- r_files, rows <- r_rows, temp <- r_temp, spc <- r_spc, dpc <- r_dpc,
    gone <- r_gone, counted <- r_counted, relied <- r_relied, broken <- r_broken

H == INSTANCE Throttle WITH
    Limit <- AttemptLimit, Window <- AttemptWindow, MaxTime <- MaxTicks,
    guard <- h_guard, now <- h_now, counter <- h_counter, pc <- h_pc, told <- h_told,
    tripped <- h_tripped, letIn <- h_letIn, failures <- h_failures

U == INSTANCE Accounts WITH
    Requests <- AccountRequests,
    user <- u_user, owner <- u_owner, codes <- u_codes, inbox <- u_inbox,
    issued <- u_issued, tokens <- u_tokens, passwords <- u_passwords, req <- u_req,
    failures <- u_failures

P == INSTANCE Pricing WITH
    book <- p_book, published <- p_published, over <- p_over, sale <- p_sale,
    ceiling <- p_ceiling, used <- p_used, hold <- p_hold, charged <- p_charged,
    clamped <- p_clamped

Q == INSTANCE ServiceRequests WITH
    Requests <- SignedRequests, Window <- SigningWindow, MaxTime <- MaxSeconds,
    now <- q_now, key <- q_key, stamp <- q_stamp, nonce <- q_nonce, pc <- q_pc,
    req <- q_req, checked <- q_checked, honoured <- q_honoured, failures <- q_failures

-----------------------------------------------------------------------------
allVars == <<scene, r_vars, h_vars, vars, u_vars, p_vars, q_vars>>

AnyInit ==
    /\ scene \in {"audio", "throttle", "lines", "accounts", "prices", "signing"}
    /\ R!Init /\ H!Init /\ Init /\ U!Init /\ P!Init /\ Q!Init
    /\ scene = "throttle" \/ h_guard = "enforce"
    /\ scene = "prices" \/ p_book = [v \in Versions |-> CHOOSE t \in Tariffs : TRUE]

AudioMoves ==
    /\ scene = "audio" /\ R!Next
    /\ UNCHANGED <<scene, h_vars, vars, u_vars, p_vars, q_vars>>
ThrottleMoves ==
    /\ scene = "throttle" /\ H!Next
    /\ UNCHANGED <<scene, r_vars, vars, u_vars, p_vars, q_vars>>
LinesMove ==
    /\ scene = "lines" /\ Next
    /\ UNCHANGED <<scene, r_vars, h_vars, u_vars, p_vars, q_vars>>
AccountsMove ==
    /\ scene = "accounts" /\ U!Next
    /\ UNCHANGED <<scene, r_vars, h_vars, vars, p_vars, q_vars>>
PricesMove ==
    /\ scene = "prices" /\ P!Next
    /\ UNCHANGED <<scene, r_vars, h_vars, vars, u_vars, q_vars>>
SigningMoves ==
    /\ scene = "signing" /\ Q!Next
    /\ UNCHANGED <<scene, r_vars, h_vars, vars, u_vars, p_vars>>

AnyNext == AudioMoves \/ ThrottleMoves \/ LinesMove \/ AccountsMove \/ PricesMove \/ SigningMoves

AnySpec == AnyInit /\ [][AnyNext]_allVars

\* What the modules, and the theorems, take of their constants.
AudioAssumption ==
    R!KeyAssumption /\ R!TableAssumption /\ R!BoundAssumption /\ Savers # {}
ThrottleAssumption == H!GuardsAssumption /\ H!LimitAssumption
LinesAssumption    == NumbersAssumption /\ IsFiniteSet(Calls) /\ Calls # {}
AccountsAssumption == U!UnlinkersAssumption /\ U!IdentitiesAssumption /\ U!BoundsAssumption
PricesAssumption   == P!PriceAssumption
SigningAssumption  == Q!TimesAssumption /\ Q!NobodyAssumption /\ IsFiniteSet(Handlers)

ASSUME ServicesAssumption ==
    /\ AudioAssumption /\ ThrottleAssumption /\ LinesAssumption
    /\ AccountsAssumption /\ PricesAssumption /\ SigningAssumption

-----------------------------------------------------------------------------
(* Properties: each is its module's. (VoiceLines' own are checked as well.)   *)

\* Every service keeps its type invariant.
TypesOK ==
    /\ scene = "audio" => R!TypeOK
    /\ scene = "throttle" => H!TypeOK
    /\ scene = "lines" => TypeOK
    /\ scene = "accounts" => U!TypeOK
    /\ scene = "prices" => P!TypeOK
    /\ scene = "signing" => Q!TypeOK

\* No file is deleted under a row that named it (release_key).
SharedFileKept == R!SharedFileKept

\* A subject gets its limit of attempts in a window of the clock (throttle.enforce).
WithinBudget == H!WithinBudget

\* A signed request is honoured once, however often it arrives (verify_internal_caller).
HonouredOnce == Q!HonouredOnce

\* One signup bonus for a user (verify_registration_otp, sign_in).
OneBonus == U!OneBonus

\* Work within its quote is never clamped (quote, settle_oneshot).
QuoteCovers == P!QuoteCovers
==============================================================================
