-------------------------------- MODULE SampleFlow --------------------------------
(***************************************************************************)
(* What a step of training promises for its samples, whatever the order of *)
(* the rows and however they are spread over ranks: every prompt is        *)
(* answered n times; a sample keeps its prompt and its input; each column  *)
(* is computed from the sample's own input, and its advantage from the     *)
(* scores of all the samples of its prompt.                                *)
(***************************************************************************)
EXTENDS Integers, FiniteSets

VARIABLES
  setup,    \* the step's parameters: prompts and n are used here
  samples,  \* the samples, once they are generated
  stage     \* "prompts", "samples" or "advantages"

sampleVars == <<setup, samples, stage>>

Grade(truth, answer) == IF answer.to = truth /\ answer.right THEN 1 ELSE 0

OfPrompt(S, p) == {s \in S : s.prompt = p}

\* A sample with column key set to what f gives for it.
WithColumn(s, key, value) ==
  [k \in DOMAIN s \cup {key} |-> IF k = key THEN value ELSE s[k]]

SInit == samples = {} /\ stage = "prompts"

\* Each prompt is answered n times, and every answer is that of its own prompt.
Generate ==
  /\ stage = "prompts" /\ stage' = "samples"
  /\ \A p \in 1..setup.prompts : Cardinality(OfPrompt(samples', p)) = setup.n
  /\ \A s \in samples' :
       /\ DOMAIN s = {"prompt", "input", "responses"}
       /\ s.prompt \in 1..setup.prompts
       /\ s.input.to = s.prompt /\ s.responses = s.input
  /\ UNCHANGED setup

\* Other responses for the samples of a prompt; what is learned from, the input,
\* stays.
Replace ==
  /\ stage = "samples" /\ UNCHANGED <<setup, stage>>
  /\ \E p \in 1..setup.prompts :
       /\ Cardinality(OfPrompt(samples', p)) = setup.n
       /\ samples \ samples' = OfPrompt(samples, p)
       /\ \A s \in samples' \ samples :
            /\ s.responses.to = p
            /\ \E old \in OfPrompt(samples, p) : s = [old EXCEPT !.responses = s.responses]

\* Every sample is rated, by its own prompt and input.
Rate ==
  /\ stage = "samples" /\ UNCHANGED <<setup, stage>>
  /\ \A s \in samples : "score" \notin DOMAIN s
  /\ samples' = {WithColumn(s, "score", Grade(s.prompt, s.input)) : s \in samples}

\* A model's log probabilities of the samples' inputs, or the critic's values of
\* each token of their responses.
Evaluate ==
  /\ stage = "samples" /\ UNCHANGED <<setup, stage>>
  /\ \A s \in samples : "score" \in DOMAIN s
  /\ \/ \E key \in {"old_log_probs", "ref_log_prob"} :
          samples' = {WithColumn(s, key, s.input) : s \in samples}
     \/ samples' = {WithColumn(s, "values", [of |-> s.input, upTo |-> s.input.len]) : s \in samples}

Scores(S) == [ones |-> Cardinality({s \in S : s.score = 1}), of |-> Cardinality(S)]

Compare ==
  /\ stage = "samples" /\ stage' = "advantages"
  /\ \A s \in samples : {"score", "old_log_probs"} \subseteq DOMAIN s
  /\ samples' = {WithColumn(s, "advantages",
                    [own |-> s.score, group |-> Scores(OfPrompt(samples, s.prompt))])
                 : s \in samples}
  /\ UNCHANGED setup

SNext == Generate \/ Replace \/ Rate \/ Evaluate \/ Compare

SSpec == SInit /\ [][SNext]_sampleVars
================================================================================
