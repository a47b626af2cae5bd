# libattest-py: specification and verification

TLA+ models of libattest-py, TLC configurations that check them on small
instances, and TLAPS proofs for every value of the constants. Source paths below
are relative to the repository root. `PROJECT.json` maps each definition to the
lines it models and lists every run, finding, hazard and theorem.

## The system

libattest-py is a Python library for remote attestation. A relying party asks a
verifier for a nonce, an attester makes evidence that covers it, and the verifier
appraises the evidence.

| Component | State | Operations | Talks to |
|---|---|---|---|
| `VerifierRouter` (`src/libattest/verifier/router.py`) | routes by name, default route, nonce table with deadlines | `register`, `resolve`, `get_nonce`, `verify_token`, `verify_bundle`, lazy eviction | verifier objects (callbacks), the clock |
| `AttestClient` (`src/attest_client.py`) | providers by OID, an HTTP session | `register_provider`, `generate_*`, `distribute_*`, CMP variants, eight REST calls | provider objects, the service over HTTP |
| `VeraisonServiceBase` (`src/verifier_service.py`) | none of its own; the subclass holds sessions | one async handler per REST route | the event loop, the subclass |
| `SimulatorStack` (`src/libattest/simulator/docker_stack.py`) | `_brought_up` | `up`, `down`, with-block, `health`, `wait_healthy`, `wait_exited`, `exec`, `logs` | docker compose, the clock |
| `VerifierClient` (`src/libattest/simulator/verifier_client.py`) | `base_url`; the caller keeps the `NewSession` handle | `new_session`, `submit`, `ear_verification_key` | a verifier over HTTP, `ear.py` (through its caller) |
| `TpmClient` (`src/libattest/simulator/tpm_client.py`) | none | `startup_clear`, `pcr_read`, `pcr_digest`, `pcr_extend` as shell commands | the TPM simulator, in a container per call or a shared one |
| TPM verifiers (`src/libattest/verifier/tpm/`) | reference PCR values | loading, `verify_pcr_quote`, `verify_token` | the TPM formats; the router calls them |
| TPM formats (`src/libattest/formats/tpm/`) | none | `TPMS_ATTEST` extractors, PCR selection parameters | the TPM verifiers, nonce responses |
| Key-attestation PoP (`formats/key_attest_pop/`, `crypto/rsa_encryption.py`, `x509/extensions.py`) | OID alias, fixed at import | challenge, decryption, MAC and signature proofs, verification | CA and attester |
| `ear.py` | none | verdict parsing, ES256 check, all-affirming rule | callers |
| Release tooling (`scripts/release`, two workflows) | tags, releases on two hosts | resolve version, create tag, validate tag, notes, publish | git, GitHub, GitLab |

What is hard here, and hard to test:

- the router keeps per-nonce state across callbacks of unknown length, evicts it
  lazily and lets a nonce override the URL policy;
- the client loops over a dict that its callbacks may change, and gives up on
  requests that the service handles later;
- the service's submissions await the body, so other requests run in between;
- the stack driver runs commands that fail half done, and polls with a deadline;
- a nonce, a session URL, a signing key and a token each come in an answer of their
  own, while verifiers restart and sessions are opened at other hosts;
- the parsers take offsets and counts from the bytes they parse;
- proofs, responses and challenges of overlapping sessions may be mixed up or damaged;
- the TPM tools share a file when they share a container;
- release runs check a tag and push it later, with nothing to keep two runs apart.

What makes each part correct is stated as properties in its module and explained
under *Runs*.

## Modules

### Router

`VerifierRouter` has one action per step of a call: a call is split where the
Python code waits for a verifier (`verifier.get_nonce`, `verifier.verify_token`),
because other callers, registrations and the clock act in between. `routes`,
`default` and `table` are `_routes`, `_default_route_name` and `_nonce_routes`;
`call[c]` is the stack frame of caller `c`; `hist` and `preferred` exist only for
properties.

- `order` is the order of the dict's keys: a new name comes last, a name registered
  again keeps its place (`Listed`). `First` is the match a loop over the dict returns.
- An entry's `left` is `expires_at - now`, floored at 0, so the clock needs no
  bound. `Unexpired` is what `_evict_expired_nonces` leaves.
- `Resolve(req)` is the route `resolve()` returns as a singleton, or `{}` when it
  raises `VerifierRouteError`.
- `Start` is `get_nonce` and `verify_token` up to the callback, `NonceArrives`,
  `TokenJudged`, `StatementJudged` the rest, `VerifierRaises` the exception path.
- Eviction is a single step. The code has no lock; two threads inside
  `_evict_expired_nonces` at once can raise `KeyError`, which is below the grain
  of the model and listed as a hazard. So is the `RuntimeError` of `resolve` when
  another thread registers a new name during its loop.
- `verify_bundle` first raises `ValueError` for lists of another length than the
  statements. Nothing has happened by then, and the bundles of the model are past it.

`NonceLedger` is the abstract specification: a ledger of live challenges, each
answered by its issuer, at most until it is used up or its lifetime ends, with no
routing, policy, bundles or lazy eviction. `VerifierRouter!Ledger` is the
refinement mapping: a challenge is live when its entry is unexpired. The two use
the assumption that verifiers which do not repeat nonces issue fresh ones.

`MCVerifierRouter` gives the instances; `VerifierRouterProofs` and `LedgerProofs` have
the proofs.

### Client and service

`HttpWire` holds the requests under way. A request or its response may be lost;
nothing is sent twice (`requests` does not retry). A message whose client gave up
is still handled, and its answer goes nowhere.

`AttestClient` keeps `providers` as a sequence of pairs in dict order and the
current call. A loop over the dict remembers its `size`: CPython raises
`RuntimeError` at the next step of the iterator once the size differs, also after
the last key. `Ask`/`ProviderReturns` are `generate_evidence`, `Distribute` is
`distribute_attest_result`, `ResponseArrives`/`GivesUp` the end of each HTTP call
(`raise_for_status`, timeout, connection error, body that is no JSON).

`VeraisonService` has one action per handler. `AwaitBody` is the
`await request.body()` of the two submissions; the rest of each handler runs in one
piece on the event loop. The session store belongs to the subclass: sessions have
fresh identifiers, may expire, may be found or refused; `Raises` lets any handler
fail. `AnswerDocument` covers `json.dumps` failing after the work was done.

`ChallengeResponse` composes the three; `MCChallengeResponse` gives instances and
`ChallengeResponseProofs` has the proofs.

### Simulator stack

`SimulatorStack` models the driver and docker's containers, which change on their
own. Compose starts or removes one service at a time and may fail or be killed at
any point (`UpRaises`, `DownFails`, `DownTimesOut`). Any container that is there may
exit, with a healthcheck or without (`ContainerMoves`). A wait measures time in ticks;
time also passes while docker answers a poll, at most `PollMax` ticks. A poll reads the
container's state at one instant of that (`Reads`); the container may move on before
the poll's commands have ended and the wait acts on what was read (`PollEnds`).
`MCSimulatorStack` is the simulator with a healthcheck and the one-shot
provisioner; `StackProofs` has the proofs.

### Relying party

`VerifierClient` is one client (`simulator/verifier_client.py`) and the verifiers it
talks to. Each of the three calls is a request, an answer and what the client makes
of it. `NewSessionChecks`, `SubmitChecks` and `KeyChecks` list the checks of an
answer in the order of the code, each with the exception it ends in; an answer
carries the set of things wrong with it, so two faults at once show which check
comes first. `SessionHost` is the choice between an absolute `Location` and a path.

The verifiers are external: they number their sessions, may open one at another
verifier, and get a new signing key at a restart. `Frameworks` are those built on
`VeraisonServiceBase`, whose answers have no `Location`: what keeps their
hex-written nonce (which decodes as base64 to other bytes) out of any handle is only
that `new_session` then raises. A newSession whose caller timed out still opens its
session (`OpenLate`).

`EarVerdict` has the three functions of `ear.py` as operators on tokens: how many
parts, what the payload decodes to, which key signed which payload in which form.
`RelyingParty` puts both together: a caller judges the token at hand with the key at
hand (`Judge`), and `Damage` changes a token on its way. `appraisal` and `damaged`
are history. `ear.py` never looks at the nonce of a token; that an accepted token is
for the client's own session follows from how it got there (`AcceptanceIsEarned`).

### TPM quotes

`TpmsAttest` is the parser of `formats/tpm/tpms_attest.py`, one action per length
check, over buffers of any length with any number at any offset. `PcrSelection` has
the selection parameters of a nonce response as operators, `TpmClient` the shell
commands tool by tool against a simulator that boots late and restarts.
`QuoteAppraisal` composes them with the verifier: the CA says which PCRs it wants,
references are captured through `pcr_read`, the platform quotes, the buffer may
arrive cut or changed, `verify_pcr_quote` compares. `SortedIndices` is the order that
the encoder (`pcr_selection.py:94`) and the TPM put PCRs in. `QuoteAppraisalProofs` has
the proofs, of the parser on its own and of the whole.

The layout of `TPMS_ATTEST` is the TPM's, and external: `ExtraAt`, `AttestedAt`,
`SelectionAt` and `DigestAt` say where each field begins, `StructureAssumption` that a
buffer has its structure's numbers there unless it is damaged, for a structure with any
field sizes and any number of masks.

What the models keep of the code: in mode `exec` every call writes the same
`/tmp/_libattest_pcr.bin` in the shared container (`tpm_client.py:111`), so
`ReadsAreOwn` holds for overlapping calls only in mode `run`; a startup on a TPM that
is started changes nothing, and the TPM is not in the container that goes away
(`tpm_client.py:60`, `107`), so a read in mode `run` finds what earlier calls extended,
which lines 103-104 and 140-141 of its documentation do not expect;
the type field of `TPMS_ATTEST` is never looked at, and `verify_pcr_quote` ignores the
selection.

A list of indices may hold what is no integer (`NotInt`: `None`, a `bool`, a string), and
what another CA puts on the wire may decode to anything or not at all (`Malformed`: no
DER, nothing, or bytes left over). `load_pcr_reference_values` also raises for a file it
cannot read or whose content it refuses; then there is no reference and nothing has
changed.

### Key-attestation proof of possession

`Possession` is the promise: a session is accepted only after the holder of the very
key it asks about has used that key on it. `KeyAttestPop` is the exchange in detail:
a nonce request with or without a public key, a nonce and a challenge encrypted to
that key, and a proof as an extension, by MAC or by signature, made by this library
or another one, on a wire that mixes up responses and damages challenges and
extensions, an extension also in several fields (`Spoiled`). MACs,
signatures and ciphertexts are records of what went into them. `Abstract` in
`KeyAttestPop` is the refinement mapping.

`pbmac.py` documents that `verify_key_attest_pop_proof` gives `False` on any decode
failure. `pop_never_raises` refutes this (`VerificationNeverRaises`): PBM parameters that
do not decode raise `PyAsn1Error`; a key of unknown type raises `UnsupportedAlgorithm`.
`EscapesNeedDamage` says what is left of the promise: a challenged session that is given
an extension raises only if that was damaged in its parameters as a whole or is a
signature whose algorithm identifier was changed into that of a MAC; damage to the
encoding, the salt or the iteration count is judged.

### Releases

`ReleasePipeline` has both workflows and the three commands of
`release_metadata.py`. A run works on the commit it was started for, whatever `main`
is by then. `dispatch` and `release` say how far each run is; `entry` is what the
two hosts show. People push, move and delete tags and re-run jobs. A failed
`git ls-remote` counts as no such tag; a push with the workflow's own token need not
start the other workflow; GitHub makes a tag that is gone anew at the head of `main`.
There is no concurrency group, so two release runs of one tag may leave the hosts
with different notes; each shows notes of that version (`ReleasesShowTheirNotes`).

## Runs

| Run | Instance | Shows |
|---|---|---|
| `router_one_caller` | 1 caller, 2 routes, 2 nonces, `v2` repeats nonces, one URL of two allowed, lifetime 2, bundles up to 2 of 4 statements | types, lookups, lasting preference between competing routes, one verdict per challenge, accepted bundles appraised, refused URLs only by nonce, issuer appraises |
| `router_two_callers` | 2 callers, 1 nonce, a route that moves to another verifier, no URLs, lifetime 2 | refinement of `NonceLedger`, one verdict per caller at most, calls return, nonces leave |
| `challenge_response` | 2 OIDs, 2 providers and a misregistered one, 2 sessions, 3 requests, all REST calls; within `Focus` | responses stand for handled evidence, loops cover every provider, CMP results are parallel, deleted sessions rest, calls end |
| `simulator_stack` | 2 services, timeout 4, interval 2, polls up to 1 | clean exit, fresh returns, steady health noticed, bounded waits, calls end |
| `stack_teardown` (violated) | as above | teardown on exit is not guaranteed |
| `stack_timeout` (violated) | as above | `TimeoutError` although the service became healthy in time |
| `key_attest_pop` | 2 sessions, 2 strong RSA keys, a short one, one that is not RSA, keys that do not parse or are of unknown type, 2 extensions sent | refinement of `Possession`, honest proofs verify, which exceptions escape |
| `pop_never_raises` (violated) | 1 session, 1 strong RSA key, 2 extensions sent | verification raises on PBM parameters that do not decode |
| `quote_appraisal` | 2 clients, 2 PCRs, 1 extend, 2 retries; 3 structures cut at every length and with each number replaced by 0, 4 or 70000; 6 lists of indices, one not all integers | parser bounds and results, reads, selections, verdicts |
| `relying_party` | 1 caller with exchangeable clients, 3 verifiers (1 framework), 2 sessions, 1 restart | handles name their session, what acceptance means, what is accepted |
| `ear_never_raises` (violated) | as above with all payload shapes, 1 session, no restart | `ear_is_affirming` raises |
| `release_pipeline` | 3 commits, 2 versions, 2 runs of each workflow | a pushed tag is its run's, releases show their own notes |

Why these bounds are enough to be interesting. Two routes compete for one OID and
may be default in either order, so every order of the dict and every reason for a
choice occurs. Lifetime 2 lets an entry be fresh, aged and dead, and lets it
expire during a callback. One nonce and two callers give every overlap of two
answers; a bundle of two statements with the same nonce gives reuse within a
bundle. Three requests are a session opened, a submission given up on, and the
deletion that overtakes it; they are also a session opened and a distribution of the
token of one provider and the CoRIM of the other, which takes the second session
identifier. That run has a state constraint, `Focus` of `MCChallengeResponse`: a behaviour
goes on either with dispatches for any providers, among new sessions and the late requests
of earlier dispatches, or with all calls of the REST API, the dispatches for one provider
and every late request among them; plain calls after dispatches for two providers are cut
off, and the second session is the one of a CoRIM. A call's own steps never leave the
bound, so `CallsEnd` follows each call to its end.

Timeout 4 with interval 2 gives two full rounds, and polls that are instantaneous or
take a tick. `MaxRequests` bounds the behaviours, as does
`Bound`, which no wait reaches. For the relying party, two sessions are the one the
client holds and one opened late or elsewhere, and one restart separates the key that
signed from the key that is fetched; one newSession without a caller is followed at a
time, and a token is damaged once. Of the faults of an answer the instance has one of
each call and a pair whose order decides. Two proofs and two sessions are enough to
confuse either. Three commits with two versions are a version whose notes come one
commit after its heading, and the next version. All versions of the release instance
are well-formed. The two verifiers that are alike, the dispatches and the release runs
are symmetric.

What the less obvious properties say:

- `PreferenceLasts` says who wins after a route is registered again, without mention of
  `order`: `preferred` records which route was chosen where which others matched too, and
  no two routes are ever preferred to each other. A name that moved to the end of the dict
  when registered again would break it.
- `OneVerdictPerChallenge` counts verdicts obtained through a remembered nonce.
  Overlapping calls may each get one (nothing locks the table), so the bound is
  the number of callers: exactly one when calls do not overlap.
- `IssuerAppraises` is conditional on no name being registered with two verifiers;
  the two-caller instance registers one so, and the verdict is then the new
  verifier's.
- `AllProvidersAnswer` depends on the dict iterator's size check; iterating over a
  copy of the keys breaks it.
- `CmpEvidenceIsParallel` includes the responses that ask for no OID: the provider that
  was the only one is the first of the dict ever after.
- `DeletedSessionsRest` depends on the service looking a session up after the
  body has been read.
- `HealthyReturnIsFresh` bounds the age of what `wait_healthy` returns on by the length of
  a poll. That the service is still healthy at the return is not promised and not true.
- `SteadyHealthIsNoticed` is the guarantee the polling loop really gives; the
  stronger reading of its documentation is what `stack_timeout` refutes.
- `HonestProofsVerify` and `EarnedIsAccepted` are the other half of `ImplementsPossession`
  and `AcceptanceIsEarned`: a check that refuses everything would satisfy those.
- `AcceptanceIsEarned` is about an uninterrupted chain: the submission clears the last
  token, and so does a new session.
- `PushedTagIsOwned` depends on git refusing to push another tag object under a name
  origin has; the two checks before it may both be passed by two runs.
- `CleanExit` is conditional on `faults = {}`: the compose commands that failed
  were made up for by later ones.

Deadlock is checked except where the system may stop: the with-block of the stack is
left for good, extensions are sent at most `MaxSent` times, a quote has its verdict,
and every run of a workflow ends.

## Fairness

- Router: `WF(CallGoesOn(c))` per caller (verifiers return or raise; Python threads
  are not starved) and `WF(Tick)`. `NoncesLeaveUnderTraffic` also assumes that
  calls keep resolving routes, because eviction only happens then.
- Client: `WF(CallStep)`. Every HTTP call carries `timeout=self._cfg.timeout`, and
  providers are assumed to return or raise. The timeout of `requests` is one per
  connection and per read, so `GivesUp` is sure to come when the service or the network
  is silent; a service that sends an answer a few bytes at a time could hold a call for
  longer, and is assumed away. Nothing else is assumed of the network, the service or the
  session store.
- Stack: `WF(Driver)`. Every subprocess has a timeout, and the clock runs.

## Proofs

Each module of proofs works from the `ASSUME`s of the modules it extends, which the
runs evaluate.

`VerifierRouterProofs` proves, for every set of callers, names, verifiers, nonces,
OIDs and URLs, every policy and lifetime, from the `ASSUME`s of `VerifierRouter`
(which the runs evaluate):

- `TypeCorrect`: `Spec => []TypeOK`
- `LookupsSucceed`: `Spec => []NamesRegistered`
- `AcceptedBundlesAreAppraised`: `Spec => []AcceptedBundleIsAppraised`
- `RefusedUrlsNeedNonces`: `Spec => []RefusedUrlNeedsNonce`

The inductive invariant `IInv` adds to the types that names are registered (a dispatch
looks up a verifier), and the shape of calls: an idle call waits for nobody, `get_nonce` and
`verify_token` always wait, a waiting call is at one of its requests (so its nonce
is a nonce). There is one lemma per action. The bundle theorem uses `BundlesSound`
on top: verdicts and names are as many as statements passed, and wherever the
verdict is `affirming` the name is a registered route. The policy property is
inductive next to `IInv`: a dispatch is the only step after which a caller waits,
and `Resolve` asks the policy unless the nonce is remembered.

The second half of the module adds, for the same constants:

- `PreferencesLast`: `Spec => []PreferenceLasts`. Whoever was preferred comes earlier in
  `order` (`OrderDecides`), which lists a name once and only grows at its end; two names
  cannot each come before the other.
- `IssuersAppraise`: `Spec => []IssuerAppraises` if `Repeating = {}`. With stable
  registrations a name stands for one verifier, so the issuer of a remembered nonce is
  the verifier of its route, and a dispatch by that nonce keeps it. A verifier that
  repeats a nonce somebody holds would change the issuer under an appraisal; with one
  caller that cannot happen, and `router_one_caller` checks this case.
- `VerdictsPerChallenge`: `Spec => []OneVerdictPerChallenge` if `Callers` is finite. The
  verdicts of a nonce and the calls bound to it are at most as many as the callers
  together, and it has no verdict while it is in the table.

Both invariants are proved over the shapes of a step (`StepShapes`): the table only
fades, a call rests, a dispatch, an arrival, a verdict, a registration.

`LedgerProofs` proves the refinement, `LedgerImplemented`: `Spec => ImplementsLedger` if
`Repeating = {}`. Eviction does not show in the live nonces (`EvictionUnseen`), and every
action is a step of the ledger or a stutter. Two facts are added to `IInv`: a call that
waits with a live nonce was routed by it (`LiveBound`), because a nonce does not come
alive while somebody holds it, and a call for a nonce brings none (`BringsNone`).

`ChallengeResponseProofs` proves, for any OIDs, providers, registrations and calls, any
number of sessions and requests, and a network that loses what it likes:

- `TypeCorrect`: `Spec => []TypeOK`
- `OnlyEarnedResponses`: `Spec => []ResponsesAreEarned`
- `EveryProviderAnswers`: `Spec => AllProvidersAnswer`
- `CmpIsParallel`: `Spec => CmpEvidenceIsParallel`
- `DeletedRest`: `Spec => DeletedSessionsRest`

What a client may believe has to be true of the answer before it arrives, and has to stay
true while it is on its way: `AnswersTrue` says that a successful answer to a submission
stands for work that was done, in the session it named, and a successful answer to a
deletion for a session that will not come back. `WaitsForOwn` and `Numbered` tell the
answer a call waits for from one to a request it gave up on. `CallShape`, `LoopRounds`
and `CmpRounds` say where a call can be and what it has collected by then; the loop over
the providers relies on the first `size` keys of the dict staying where they were, because
CPython stops it as soon as a key is added. `DeletedGone` makes `DeletedSessionsRest`
inductive: a handler looks its session up after its body is there. The invariant is split
by module (`ClientInv`, `ServiceInv`), with a lemma per action and one per way in which
an action can touch the requests under way (`SendKeeps`, `BecomesCarries`).

`QuoteAppraisalProofs` proves, for buffers of any length and contents, any PCRs and
clients, any lists of indices and any hash algorithms:

- `ParserStaysInside`, `ParserTypes`: `ParserSpec => []ReadsInBounds`, `[]ParserTypeOK`
- `AppraisalTypes`: `Spec => []TypeOK`
- `AppraisalStaysInside`: `Spec => []ReadsInBounds`
- `ParserAgreesWithTpm`: `Spec => []ParsedIsEncoded`
- `PcrReadIsOwn`: `Spec => []ReadsAreOwn`
- `WantedIsSelected`: `Spec => []SelectionIsWanted`
- `AffirmedIsReference`: `Spec => []AffirmedMatchesReference`

Its invariant has one part for each module. Of the parser, `Position`: once past the
header the offset has not passed the end, and a selection took three bytes at least, so
the count the buffer claims cannot exceed what it holds; and `OnTrack`: in an undamaged
structure the offset of each check is where the layout puts the field, and the selections
so far are its first masks. A failed check then means that the wanted field cannot be
there either, because it lies behind all that is read before it (`WantedBehind`). Of the
client, `CallsTrue`: what a call has written is what it read, unless another call's blob
came between. Of the offer, `OfferMade` and `Agreement`, from lemmas on the operators of
`PcrSelection`: the decoder takes what the encoder lets through, with the same indices
(`EncodeTakes`, `DecodeTakes`), and the entry is found wherever it is (`Extracted`).
`AscendingExists` shows that the `CHOOSE` in `Ascending` is of something: a finite set is
ordered by how many of its members are smaller. Of the appraisal, `Phases`: while there is a quote, the parser's buffer is
the quote's. The theorem on verdicts puts the four together.

`RelyingPartyProofs` proves, for any clients, verifiers, payloads and faults and any
number of sessions and restarts:

- `RelyingPartyTypes`: `Spec => []TypeOK`
- `HandlesAreSessions`: `Spec => []HandlesNameTheirSession`
- `AcceptanceMeansAppraisal`: `Spec => []AcceptanceIsEarned`
- `AppraisalMeansAcceptance`: `Spec => []EarnedIsAccepted`

What a client holds was true of its answer when the answer was made, and stays true.
So the invariant speaks of answers under way too: `AnswersName` (an answer that
`new_session` will not refuse names a session and its nonce), `TokensEarned` (what the
signature on a token stands for, whatever has happened to the rest of it), `CallsMatch`
(a request is for the handle or the base URL at hand) and `DecisionsStand`.
`FirstFailureSound` connects the order of the checks with what an accepted answer
cannot have wrong with it. Each action is one of four shapes (request, end, answer,
something at a verifier), and each shape is a lemma.

`ReleaseProofs` proves, for any history of commits and any number of runs,
`DispatchesOwnTheirTags` (`PushedTagIsOwned`), `PublishedNotesBelong`
(`ReleasesShowTheirNotes`) and `ReleaseTypes`. `DispatchShape` and `ReleaseShape` say
what a run has established by the step it is at; the properties are inductive next to
them.

`KeyAttestPopProofs` proves, for any sessions and keys and any number of extensions:

- `PopTypes`: `Spec => []TypeOK`
- `PossessionImplemented`: `Spec => ImplementsPossession`
- `HonestProofsAccepted`: `Spec => []HonestProofsVerify`
- `EscapesAreDamage`: `Spec => []EscapesNeedDamage`

A MAC under a session's challenge and a signature each show that a private key was used.
The invariant follows them: an attester that is ready has recovered its response's
challenge with the key (`AttesterOK`), the value of every extension on the way is such
evidence however damaged the rest is (`Backed`), an undamaged extension is what one
of the library's two provers makes (`AsMade`), and what was not damaged in its parameters
or its algorithm fits its value (`Fitting`). `Verify` accepts only on such evidence, so
it maps to `Accept` of the abstract specification.

`StackProofs` proves, for any services, timeout, polling interval and length of a poll:

- `StackTypes`: `Spec => []TypeOK`
- `WaitsAreBounded`: `Spec => []WaitIsBounded`
- `HealthyReturnsAreFresh`: `Spec => []HealthyReturnIsFresh`
- `SteadyHealthNoticed`: `Spec => []SteadyHealthIsNoticed`
- `ExitsAreClean`: `Spec => []CleanExit`

`Paced` says for each phase of a wait how far its clock may be past the deadline, `Seen`
that a service that is healthy now became so no earlier than the last poll which saw it
otherwise and that a poll which found it healthy is younger than that, and `Teardown` that while no fault is open something can be there only if the
flag says so or `up` is at work. The types depend on `Paced`: the clock of the model
stops at `Bound`, which it never reaches.

Only model-checked is what is out of the prover's reach, liveness: `CallsReturn`,
`NoncesLeaveUnderTraffic` and both `CallsEnd`. The four violations are
runs of TLC.

## Findings

1. `docker_stack.py:134`: `up` sets the flag only on success; a failed `up` is not
   torn down, though the class promises teardown on exit.
2. `docker_stack.py:201`: `wait_healthy` does not look again after its last sleep.
3. `ear.py:63`: `ear_is_affirming`, documented to never raise, lets `AttributeError`
   through when the payload, `submods` or a member of it is no JSON object.
4. `formats/key_attest_pop/pbmac.py:336`: `verify_key_attest_pop_proof`, documented to
   return `False` on any decode failure, lets `PyAsn1Error` through.

## Plan

Modelled: router with ledger, client, wire and service, simulator stack, relying party,
TPM quotes, proof of possession, releases. Every safety property that a run checks is
also proved. What is left:

1. Two clients made from one configuration object (`attest_client.py:248`).
2. Eviction step by step for two threads (`router.py:218`), below the grain of the model.

## Not modelled

- ASN.1 templates and builders (`formats/csrattest`, most of `x509/extensions.py`,
  `formats/tpm/tcg.py`), media-type constants, URL building and endpoint
  configuration: data without control. Where a structure decides something (what
  decodes, which fields are there), the module that uses it says so.
- `read_persistent_handles` and `tpm_name.py`: a command's output taken apart, and one
  hash over its input.
- `exec`, `run_oneshot` and `logs` of the stack: one docker command passed through.
- The OID alias of `x509/extensions.py:231`, read from the environment at import: a
  constant of a process.
- The fakes (`tests`' doubles of verifiers and providers); their fixed nonces are the
  set `Repeating` of the router.
- Cryptography, DER and base64 are idealised: what decodes, who signed what. A challenge
  that decodes but whose ciphertext was changed is left out.
- A registration from another thread during the loop of `resolve`, and the length checks
  of `verify_bundle`.
- `libattest/attester/client.py`, which `README.md` and `attester/__init__.py` import,
  is not in the repository.

## How to run

    tlc -workers 2 -config RouterOneCaller.cfg MCVerifierRouter
    tlc -workers 2 -config RouterTwoCallers.cfg MCVerifierRouter
    tlc -workers 2 -config ChallengeResponse.cfg MCChallengeResponse
    tlc -workers 2 -config SimulatorStack.cfg MCSimulatorStack
    tlc -workers 2 -config StackTeardown.cfg MCSimulatorStack     # finds a violation
    tlc -workers 2 -config StackTimeout.cfg MCSimulatorStack      # finds a violation
    tlc -workers 2 -config KeyAttestPop.cfg MCKeyAttestPop
    tlc -workers 2 -config PopNeverRaises.cfg MCKeyAttestPop      # finds a violation
    tlc -workers 2 -config QuoteAppraisal.cfg MCQuoteAppraisal
    tlc -workers 2 -config RelyingParty.cfg MCRelyingParty
    tlc -workers 2 -config EarNeverRaises.cfg MCRelyingParty      # finds a violation
    tlc -workers 2 -config ReleasePipeline.cfg MCReleasePipeline
    tlapm VerifierRouterProofs.tla
    tlapm LedgerProofs.tla
    tlapm ChallengeResponseProofs.tla
    tlapm QuoteAppraisalProofs.tla
    tlapm RelyingPartyProofs.tla
    tlapm ReleaseProofs.tla
    tlapm KeyAttestPopProofs.tla
    tlapm StackProofs.tla
