------------------------- MODULE MCSyntheticWriter -------------------------
(***************************************************************************)
(* Small configurations for the generator, rejected ones among them, and   *)
(* groups of other callers: sound ones, malformed ones, and ones at the    *)
(* limits of the header words.                                             *)
(***************************************************************************)
EXTENDS SyntheticWriter

Spec(frame, audio, types, sizes) ==
    [frame_num |-> frame, is_audio |-> audio, block_types |-> types,
     payload_size |-> 4, block_payload_sizes |-> sizes]

Config(target, period, shared, min, max) ==
    [target |-> target, period |-> period, shared |-> shared, min |-> min, max |-> max]

SmallConfigs ==
    {Config(target, period, shared, size[1], size[2]) :
        target \in 0 .. 4, period \in {0, 1, 2, 4}, shared \in 0 .. 2, size \in {<<0, 4>>, <<1, 1>>, <<5, 4>>}}
    \cup {Config(target, period, shared, 1, 2) :
            target \in 1 .. 2, period \in 0 .. 3, shared \in {0, 1, 6}}
    \cup {Config(6, period, shared, 6, 6) : period \in {1, 3}, shared \in {0, 2}}

Largest == UIntMax - kConstNumberBase

Specs ==
    {Spec(frame, FALSE, <<"VideoI">>, sizes) :
        frame \in {0, 7, Largest, Largest + 1, UIntMax}, sizes \in {<<1>>, << >>}}
    \cup {Spec(7, FALSE, <<"VideoI", "AudioP">>, <<6, 3>>),
          Spec(7, FALSE, <<"VideoI", "VideoP", "VideoB">>, << >>),
          Spec(7, FALSE, <<"VideoI", "VideoP", "VideoP", "VideoB">>, << >>),
          Spec(7, FALSE, <<"VideoI", "VideoP">>, <<4>>),
          Spec(7, FALSE, << >>, << >>),
          Spec(9, TRUE, <<"AudioI">>, <<1>>),
          Spec(Largest + 1, TRUE, <<"AudioI", "AudioP">>, << >>)}

(* Frame numbers and sizes with a start code in their bytes. *)
CodesInside ==
    {Spec(frame, FALSE, <<"VideoI">>, << >>) : frame \in {Largest + 2, Largest + 257}}
    \cup {Spec(255, FALSE, <<"VideoI", "VideoP">>, <<256, 511>>)}

AllPlans == UNION {[1 .. n -> Specs] : n \in 0 .. 2}
    \cup {<<a, b, c>> : a \in {Spec(0, FALSE, <<"VideoI">>, << >>)},
                        b \in Specs, c \in {Spec(9, TRUE, <<"AudioI">>, <<1>>),
                                            Spec(12, FALSE, <<"VideoP", "VideoI">>, <<2, 5>>)}}
    \cup {<<Spec(1, FALSE, <<"VideoI">>, <<5>>), Spec(9, TRUE, <<"AudioI">>, <<1>>),
            Spec(9, TRUE, <<"AudioP">>, <<2>>), Spec(2, FALSE, <<"VideoI">>, <<4>>)>>}
    \cup {<<a, Spec(0, FALSE, <<"VideoI">>, <<1>>)>> : a \in CodesInside}

NearBoundaries(image) ==
    {n \in {b + d : b \in {0} \cup DOMAIN image.group \cup DOMAIN image.block \cup {image.size},
                    d \in {-1, 0, 47}} : 0 <= n /\ n < image.size}
=============================================================================
