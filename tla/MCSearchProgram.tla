-------------------------- MODULE MCSearchProgram --------------------------
(***************************************************************************)
(* Small queries, with every kind of token, on a few aligned recordings,   *)
(* on an empty file and on files that hold no group.                       *)
(***************************************************************************)
EXTENDS MCFrameLocator, SearchProgram

EveryNumber == 0 .. UIntMax

NaN == -1
ASSUME NaNIsNoNumber == NaN = Query!NotANumber

GoodTokens ==
    {<<0>>, <<3>>, <<UIntMax>>, <<0, 2>>, <<2, 2>>, <<UIntMax - 1, UIntMax>>}
BadTokens ==
    {<< >>, <<UIntMax + 1>>, <<NaN>>, <<2, 1>>, <<0, UIntMax + 1>>, <<NaN, 3>>, <<1, 2, 3>>}

SmallQueries ==
    UNION {[1 .. n -> GoodTokens \cup BadTokens] : n \in 0 .. 2}
    \cup {<<<<2>>, <<0, 2>>, <<7>>>>, <<<<0, 1>>, <<1>>, <<NaN, NaN>>>>}

ProgramPlans ==
    PlansOver({"one", "pair", "audio"}, 2)
    \cup {<<"three", "skip", "pair", "one">>, <<"audio", "one", "mixed", "pair", "one">>}

ProgramFiles ==
    {Mp4!View(ImageOf(plan, Four)) : plan \in ProgramPlans}
    \cup {Mp4!View(Mp4!Truncated(ImageOf(<<"one">>, Four), size)) : size \in {0, 39, 60}}

(* The hypothesis of theorem ReportsAreAnswers. *)
ASSUME ProgramFilesAreIndexed == \A f \in ProgramFiles, opt \in WideOnly : Indexed(f, opt)
=============================================================================
