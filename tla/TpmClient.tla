---- MODULE TpmClient ----
(***************************************************************************)
(* tpm2-tools driven from Python (simulator/tpm_client.py) against the TPM *)
(* simulator, which is external: it boots, may be restarted, and holds the *)
(* PCRs.  A client call is one shell command whose tools run one after the *)
(* other, in a container of its own (mode "run") or in one that all calls  *)
(* share (mode "exec"); calls of several clients overlap.                  *)
(***************************************************************************)
EXTENDS Integers, Sequences, FiniteSets, SortedIndices

CONSTANTS Clients,
          Pcrs,        \* PCR indices
          MaxExtends,  \* bound: extends of one PCR
          Retries,     \* startup_clear's retries
          None

ASSUME ClientAssumption ==
    /\ Pcrs \subseteq Nat /\ IsFiniteSet(Pcrs)
    /\ MaxExtends \in Nat /\ Retries \in Nat

VARIABLES tpm,    \* the simulator: booted, started, and the PCRs of the SHA-256 bank
          mode,   \* self.mode, the same for all clients
          file,   \* /tmp/_libattest_pcr.bin in the shared container
          calls   \* client -> the call in progress, or how the last one ended

clientVars == <<tpm, mode, file, calls>>

\* A PCR is as good as the number of extends since the reset.
PcrValues == [Pcrs -> 0 .. MaxExtends]

\* SIMULATOR_PCR_RESET_VALUE, in every PCR.
Reset == [i \in Pcrs |-> 0]

\* The -o blob of tpm2_pcrread: selected PCRs in index order, no length, no index.
Concatenation(pcr, selection) ==
    LET order == Ascending(selection) IN [n \in DOMAIN order |-> pcr[order[n]]]

Readings == UNION {[1 .. n -> 0 .. MaxExtends] : n \in 0 .. Cardinality(Pcrs)}
Blobs == Readings \cup {None}

\* `own` is the blob in the call's own container; `truth` and `crossed` are history: what
\* the TPM held when this call read it, and whether another call's blob came between.
Idle == [at |-> "idle", selection |-> {}, tries |-> 0, own |-> None,
         output |-> None, truth |-> None, crossed |-> FALSE]

ClientTypeOK ==
    /\ tpm \in [booted : BOOLEAN, started : BOOLEAN, pcr : PcrValues]
    /\ mode \in {"run", "exec"}
    /\ file \in Blobs
    /\ calls \in [Clients ->
           [at : {"idle", "waiting", "startup", "pcrread", "cat", "done", "raised"},
            selection : SUBSET Pcrs, tries : 0 .. Retries, own : Blobs, output : Blobs,
            truth : Blobs, crossed : BOOLEAN]]

ClientInit ==
    /\ tpm = [booted |-> FALSE, started |-> FALSE, pcr |-> Reset]
    /\ mode \in {"run", "exec"}
    /\ file = None
    /\ calls = [c \in Clients |-> Idle]

Free(c) == calls[c].at \in {"idle", "done", "raised"}

----
(* The simulator *)

Boot ==
    /\ ~tpm.booted
    /\ tpm' = [tpm EXCEPT !.booted = TRUE]
    /\ UNCHANGED <<mode, file, calls>>

\* The container is restarted; the PCRs are reset by the startup that must follow.
Restart ==
    /\ tpm.booted
    /\ tpm' = [booted |-> FALSE, started |-> FALSE, pcr |-> Reset]
    /\ UNCHANGED <<mode, file, calls>>

\* TPM2_Startup(CLEAR): a TPM that is started already stays as it is.
Started(t) == IF t.booted THEN [t EXCEPT !.started = TRUE] ELSE t

----
(* startup_clear *)

StartupClear(c) ==
    /\ Free(c)
    /\ calls' = [calls EXCEPT ![c] = [Idle EXCEPT !.at = "waiting", !.tries = Retries]]
    /\ UNCHANGED <<tpm, mode, file>>

\* One round of the shell loop: done, or a second's sleep and the next round, or exit 1.
StartupRound(c) ==
    /\ calls[c].at = "waiting"
    /\ tpm' = Started(tpm)
    /\ calls' = [calls EXCEPT ![c] =
           IF tpm.booted THEN [Idle EXCEPT !.at = "done"]
           ELSE IF calls[c].tries > 1 THEN [calls[c] EXCEPT !.tries = calls[c].tries - 1]
           ELSE [Idle EXCEPT !.at = "raised"]]
    /\ UNCHANGED <<mode, file>>

----
(* pcr_read, on which pcr_digest rests *)

PcrRead(c, selection) ==
    /\ Free(c)
    /\ calls' = [calls EXCEPT ![c] =
           [Idle EXCEPT !.at = IF mode = "run" THEN "startup" ELSE "pcrread",
                        !.selection = selection]]
    /\ UNCHANGED <<tpm, mode, file>>

\* tpm2_startup -c 2>/dev/null; whatever it returns.
StartupFirst(c) ==
    /\ calls[c].at = "startup"
    /\ tpm' = Started(tpm)
    /\ calls' = [calls EXCEPT ![c].at = "pcrread"]
    /\ UNCHANGED <<mode, file>>

\* Mutant: one-shot containers share their /tmp.
SharedFile(c) == TRUE

\* Whether the blob goes to a file that other calls use too.
Shared(c) == mode = "exec"

\* tpm2_pcrread -o /tmp/_libattest_pcr.bin && ...: without a started TPM the command fails.
ReadPcrs(c) ==
    /\ calls[c].at = "pcrread"
    /\ LET blob == Concatenation(tpm.pcr, calls[c].selection) IN
       IF ~tpm.started
       THEN calls' = [calls EXCEPT ![c] = [Idle EXCEPT !.at = "raised"]] /\ UNCHANGED file
       ELSE /\ calls' = [d \in Clients |->
                  IF d = c THEN [calls[c] EXCEPT !.at = "cat", !.truth = blob,
                                     !.own = IF Shared(c) THEN None ELSE blob]
                  ELSE IF calls[d].at = "cat" /\ mode = "exec"
                  THEN [calls[d] EXCEPT !.crossed = TRUE]
                  ELSE calls[d]]
            /\ file' = IF Shared(c) THEN blob ELSE file
    /\ UNCHANGED <<tpm, mode>>

Cat(c) ==
    /\ calls[c].at = "cat"
    /\ calls' = [calls EXCEPT ![c].at = "done", ![c].own = None,
                     ![c].output = IF Shared(c) THEN file ELSE calls[c].own]
    /\ UNCHANGED <<tpm, mode, file>>

\* The command fails or exceeds its timeout.
CallRaises(c) ==
    /\ ~Free(c)
    /\ calls' = [calls EXCEPT ![c] = [Idle EXCEPT !.at = "raised"]]
    /\ UNCHANGED <<tpm, mode, file>>

----
(* pcr_extend *)

PcrExtend(c, i) ==
    /\ Free(c) /\ tpm.pcr[i] < MaxExtends
    /\ tpm' = IF tpm.started THEN [tpm EXCEPT !.pcr[i] = @ + 1] ELSE tpm
    /\ calls' = [calls EXCEPT ![c] =
           [Idle EXCEPT !.at = IF tpm.started THEN "done" ELSE "raised"]]
    /\ UNCHANGED <<mode, file>>

----
ClientNext ==
    \/ Boot \/ Restart
    \/ \E c \in Clients :
          \/ StartupClear(c) \/ StartupRound(c)
          \/ \E selection \in (SUBSET Pcrs) \ {{}} : PcrRead(c, selection)
          \/ StartupFirst(c) \/ ReadPcrs(c) \/ Cat(c) \/ CallRaises(c)
          \/ \E i \in Pcrs : PcrExtend(c, i)

----
(* What makes the client correct *)

\* pcr_read returns what the TPM held for its own selection when it was read: always with
\* a container per call, and in a shared container if no other call wrote in between.
ReadsAreOwn ==
    \A c \in Clients :
        (calls[c].at = "done" /\ ~calls[c].crossed) => calls[c].output = calls[c].truth
====
