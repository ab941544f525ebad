------------------------ MODULE MCJudgmentPipeline -------------------------
(* Model-checking instances of JudgmentPipeline.                           *)
EXTENDS JudgmentPipeline

(* As in worker-main.ts and judgment-queue.service.ts, but two attempts    *)
(* instead of ten for a result job, so that they can run out.              *)
MCAttempts == [j \in Jobs |-> 2]

(* A third failure is what the report of a failure needs to be lost.       *)
(* Left out are the cache call of L3, whose failure is one of its judge,   *)
(* and publishResult of the fast worker: a fast job that is judged again   *)
(* behind it multiplies the states by ten (MCJudgmentPipelinePlaces.cfg    *)
(* has it, with two failures).                                             *)
MCFaulty == Places \ {<<"fast", "publish">>, <<"l3", "cache">>}

(* The fast worker may fail between l3Queue.add and publishResult.         *)
MCFastFaulty == {<<"fast", "publish">>}
=============================================================================
