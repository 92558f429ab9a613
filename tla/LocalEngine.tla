---------------------------- MODULE LocalEngine ----------------------------
(***************************************************************************)
(* The start of the server as far as it decides who synthesizes            *)
(* (config.cpp, main.cpp, local/local_tts_factory.cpp), and the two ways   *)
(* of using the local engine: the jobs of the heartbeat and the calls of   *)
(* entry/mediator_tts_service_impl.h.  The engine is the mock or sherpa,   *)
(* whose audio goes through local/audio_resampler.cpp.                     *)
(*                                                                         *)
(* A sample is a small integer and FullScale stands for 32767.  Of the     *)
(* mock's audio nothing is told apart.                                     *)
(***************************************************************************)
EXTENDS Integers, FiniteSetsExt, Sequences

CONSTANTS
  NativeRates,  \* sample rates of the models
  FloatSamples, \* what a model generates, in units of the PCM
  MaxGenerated, \* bound on the samples it generates
  FullScale

ASSUME EngineAssumption ==
  /\ NativeRates \subseteq Nat \ {0} /\ FloatSamples \subseteq Int
  /\ MaxGenerated \in Nat /\ FullScale \in Nat

VARIABLES
  phase,      \* "start", "serving" or "exited"
  exit_code,  \* what main returned
  local,      \* Config::local, once the server serves
  engine,     \* local_engine_shared: "none", "mock" or "sherpa"
  native_sr,  \* Impl::native_sr of sherpa
  answer      \* what the last use of the engine came to

engine_vars == <<phase, exit_code, local, engine, native_sr, answer>>

TargetRate == 16000

\* via names who asked, by what is said of the backend; input and samples are
\* the audio before and behind the resampler.
Answer(via, status, input, samples) ==
  [via |-> via, status |-> status, input |-> input, samples |-> samples]
Empty(via, status) == Answer(via, status, <<>>, <<>>)

\* The environment variables that decide; numbers that cannot be read are "junk".
Environments ==
  [auth : {"off", "no key", "bad key", "on"}, pool_max : {"junk", "0", "4"},
   enabled : {"false", "other"}, prefer : {"false", "other"},
   backend : {"sherpa", "mock", "other"}, model_dir : {"", "missing", "bare", "model"},
   api_key : {"", "set"}]

EngineInit ==
  /\ phase = "start" /\ exit_code = 0
  /\ local = [enabled |-> TRUE, prefer_local |-> TRUE, backend |-> "sherpa"]
  /\ engine = "none" /\ native_sr = 24000
  /\ answer = Empty("nobody", "none")

-----------------------------------------------------------------------------
(* Start.                                                                  *)

\* Every value other than "false" switches on.
FromEnv(v) ==
  [enabled |-> v.enabled # "false", prefer_local |-> v.prefer # "false", backend |-> v.backend]

Validate(v) ==
  /\ v.pool_max \notin {"junk", "0"}
  /\ v.auth # "no key"
  /\ FromEnv(v).enabled /\ v.backend = "sherpa" => v.model_dir \notin {"", "missing"}
  /\ ~FromEnv(v).enabled => v.api_key # ""

\* The constructor of SherpaOnnxLocalTts, in a build that has it; loaded is
\* what SherpaOnnxCreateOfflineTts makes of the files.
SherpaReady(v, built, loaded) == built /\ v.model_dir = "model" /\ loaded

\* Mutant: there is no falling back to the mock.
CreateLocalTts_Unchecked(v, built, loaded) ==
  IF v.backend = "mock" THEN "mock"
  ELSE IF SherpaReady(v, built, loaded) THEN "sherpa" ELSE "none"

CreateLocalTts(v, built, loaded) ==
  IF v.backend # "mock" /\ SherpaReady(v, built, loaded) THEN "sherpa" ELSE "mock"

Exit(code) == phase' = "exited" /\ exit_code' = code /\ UNCHANGED <<local, engine, native_sr, answer>>

\* main up to the start of its threads; the port may be taken (~bound).
Start ==
  /\ phase = "start"
  /\ \E v \in Environments, built, loaded, bound \in BOOLEAN, rate \in NativeRates :
     CASE ~Validate(v)       -> Exit(1)
       [] v.auth = "bad key" -> Exit(2)
       [] ~bound             -> Exit(3)
       [] OTHER -> /\ phase' = "serving"
                   /\ local' = FromEnv(v)
                   /\ engine' = CreateLocalTts(v, built, loaded)
                   /\ native_sr' = IF engine' = "sherpa" THEN rate ELSE native_sr
                   /\ UNCHANGED <<exit_code, answer>>

-----------------------------------------------------------------------------
\* MockLocalTts::Synthesize, which cannot fail.
Mock(via) == Empty(via, "ok")

-----------------------------------------------------------------------------
(* AudioResampler and SherpaOnnxLocalTts::Synthesize.                      *)

FloatToInt16(x) == Max({-FullScale, Min({x, FullScale})})

\* lrint(num / den): to the nearest, halves to even.
LrInt(num, den) ==
  LET q == num \div den
      r == 2 * (num % den)
  IN  IF r < den \/ (r = den /\ q % 2 = 0) THEN q ELSE q + 1

\* What stands behind the end of the input is no sample.
Beyond == FullScale + 1
At(s, i) == IF i < Len(s) THEN s[i + 1] ELSE Beyond

\* Mutant: the second neighbour is not held inside the input.
Neighbour_Unbounded(i, n) == i + 1
Neighbour(i, n) == Min({i + 1, n - 1})

ResampleLinear(s, from, to) ==
  [k \in 1 .. (Len(s) * to + from - 1) \div from |->
     LET pos == (k - 1) * from
         i0 == pos \div to
         t == pos % to
     IN  LrInt((to - t) * At(s, i0) + t * At(s, Neighbour(i0, Len(s))), to)]

\* to_16k_mono_int16 with the one channel sherpa has.
To16kMono(input, rate) ==
  LET pcm == [i \in DOMAIN input |-> FloatToInt16(input[i])]
  IN  IF input = <<>> \/ rate = TargetRate THEN pcm ELSE ResampleLinear(pcm, rate, TargetRate)

Sherpa(via, generated) ==
  Answer(via, "ok", generated, To16kMono(generated, native_sr))

\* The engine's answer, whoever asks; sherpa may generate nothing (status 1000).
Synthesize(via) ==
  \/ engine = "mock" /\ answer' = Mock(via)
  \/ /\ engine = "sherpa"
     /\ \/ answer' = Empty(via, "failed")
        \/ \E n \in 0 .. MaxGenerated :
             \E g \in [1 .. n -> FloatSamples] : answer' = Sherpa(via, g)

-----------------------------------------------------------------------------
\* MediatorTtsServiceImpl::Synth.
Synth ==
  /\ phase = "serving"
  /\ IF engine = "none" THEN answer' = Empty("mediator", "unavailable")
     ELSE Synthesize("mediator")
  /\ UNCHANGED <<phase, exit_code, local, engine, native_sr>>

ShouldUseLocal(backend) ==
  /\ engine # "none"
  /\ backend # "upstream"
  /\ backend = "local" \/ local.prefer_local

\* handle_request's choice, and the job as the loop of main runs it.
Request(backend) ==
  /\ phase = "serving"
  /\ IF ShouldUseLocal(backend) THEN Synthesize(backend)
     ELSE answer' = Empty(backend, "upstream")
  /\ UNCHANGED <<phase, exit_code, local, engine, native_sr>>

EngineNext ==
  \/ Start
  \/ Synth
  \/ \E backend \in {"auto", "local", "upstream"} : Request(backend)

EngineSpec == EngineInit /\ [][EngineNext]_engine_vars

-----------------------------------------------------------------------------
(* The request's backend decides who serves it, as docs/API.md:59-61 says: *)
(* a request for the local backend never goes upstream, one for the        *)
(* upstream backend is never synthesized here, and one that leaves the     *)
(* choice goes upstream only where the environment does not prefer the     *)
(* local engine.                                                           *)
ServedWhereAsked ==
  /\ answer.via = "local" => answer.status # "upstream"
  /\ answer.via = "upstream" => answer.status = "upstream"
  /\ answer.via = "auto" /\ answer.status = "upstream" => ~local.prefer_local

(* Every sample the resampler makes lies between two samples the model     *)
(* generated, clamped to full scale, and none is read behind the end; the  *)
(* length is that of the input at the other rate, rounded up.              *)
ResampledInsideInput ==
  answer.status = "ok" /\ engine = "sherpa" =>
    /\ \A k \in DOMAIN answer.samples :
         \E i, j \in DOMAIN answer.input :
           /\ FloatToInt16(answer.input[i]) <= answer.samples[k]
           /\ answer.samples[k] <= FloatToInt16(answer.input[j])
    /\ Len(answer.samples) * native_sr >= Len(answer.input) * TargetRate
    /\ (Len(answer.samples) - 1) * native_sr < Len(answer.input) * TargetRate

(* README.md: TTS_LOCAL_ENABLED=false sends requests to the upstream       *)
(* service.                                                                *)
DisabledMeansUpstream ==
  answer.via = "auto" /\ ~local.enabled => answer.status = "upstream"

(* docs/API.md:60 and :317: a request for the local backend fails where    *)
(* the local engine could not be loaded.                                   *)
NotLoadedMeansError ==
  answer.via = "local" /\ local.backend = "sherpa" /\ engine # "sherpa" => answer.status # "ok"
=============================================================================
