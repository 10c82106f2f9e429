----------------------------- MODULE MCGLState -----------------------------
(***************************************************************************)
(* Two contexts, each with a thread; one workload for each group of state  *)
(* the shadow keeps, so that each is explored in depth.                    *)
(***************************************************************************)
EXTENDS MapInvariant, TLC

Quota(f) == f @@ [o \in Ops \cup EglOps \cup MapOps |-> 0]
Pair == [create |-> 2, destroy |-> 1, current |-> 3]

Textures     == Quota([create |-> 2, current |-> 3,
                       active |-> 1, genTex |-> 2, bindTex |-> 3, delTex |-> 1])
Samplers     == Quota(Pair @@ [genSmp |-> 2, bindSmp |-> 3, delSmp |-> 1])
Framebuffers == Quota(Pair @@ [genFb |-> 2, bindFb |-> 3, delFb |-> 1])
Arrays       == Quota([create |-> 2, current |-> 2,
                       genVao |-> 1, bindVao |-> 3, delVao |-> 1, genBuf |-> 2,
                       bindEbo |-> 2, delBuf |-> 1])
Buffers      == Quota(Pair @@ [view |-> 1, genBuf |-> 2, bindArray |-> 3, delBuf |-> 1])

(* Of attachments: in one framebuffer, in one that is made again, and of a *)
(* texture that is deleted in the other context.                           *)
Attachments  == Quota([create |-> 1, current |-> 1, view |-> 1, genFb |-> 1, bindFb |-> 1,
                       genTex |-> 2, attach |-> 3, attachRb |-> 1, delTex |-> 1])
Remade       == Quota([create |-> 1, current |-> 1, genFb |-> 2, bindFb |-> 3, delFb |-> 1,
                       genTex |-> 1, attach |-> 2])
SharedTexture == Quota([create |-> 2, current |-> 2, genFb |-> 1, bindFb |-> 2,
                        genTex |-> 2, attach |-> 2, delTex |-> 1])

(* Of mapped buffers.                                                      *)
One == [create |-> 1, current |-> 1, view |-> 1]
Two == [create |-> 2, current |-> 2, view |-> 1]
Tables       == Quota(Two @@ [genBuf |-> 2, delBuf |-> 1, bindArray |-> 2,
                              read |-> 2, unmap |-> 1])
Unmapped     == Quota(One @@ [genBuf |-> 1, bindArray |-> 1, write |-> 2, store |-> 3,
                              unmap |-> 2, read |-> 1, draw |-> 1])
Streams      == Quota(One @@ [genBuf |-> 2, bindArray |-> 2, stream |-> 2, store |-> 3,
                              draw |-> 2])
Uniforms     == Quota(Two @@ [genBuf |-> 1, bindArray |-> 1, stream |-> 1, store |-> 2,
                              bindRange |-> 3])
OneRange     == Quota(One @@ [genBuf |-> 1, bindArray |-> 1, stream |-> 2, explicit |-> 1,
                              store |-> 2, flush |-> 1, bindRange |-> 3, unmap |-> 1])
Replaced     == Quota(One @@ [genBuf |-> 2, delBuf |-> 1, bindArray |-> 2, stream |-> 1,
                              store |-> 1, bindRange |-> 2])
Rebinding    == Quota(Two @@ [genBuf |-> 2, delBuf |-> 1, bindRange |-> 3])
Repeated     == Quota(One @@ [genBuf |-> 1, bindArray |-> 1, stream |-> 1, store |-> 4,
                              draw |-> 1, bindRange |-> 3])
Values       == Quota(Pair @@ [cap |-> 3, view |-> 2])

MCWorkloads == {Textures, Samplers, Framebuffers, Attachments, Remade,
                SharedTexture, Arrays, Buffers, Values,
                Tables, Unmapped, Streams, Uniforms, OneRange, Repeated, Replaced,
                Rebinding}
LateWorkloads == {Quota(Pair @@ [cap |-> 2])}
MCSymmetry == Permutations(Threads)
=============================================================================
