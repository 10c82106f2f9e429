---------------------------- MODULE GLStubCalls ---------------------------
(***************************************************************************)
(* What every entry point of the stub libraries puts into its command and  *)
(* takes from the answer, in the order of the source.  What an entry point *)
(* decides before it begins a command (bad arguments, shadowed state that  *)
(* is already so) leaves nothing in the ring and is not written down here. *)
(***************************************************************************)
EXTENDS CallShapes

(***************************************************************************)
(* src/stub/gles2_stub.c                                                   *)
(***************************************************************************)
\* Textures: active unit, binding, names.
TextureBinding ==
    UNION {Tells("w", {"glActiveTexture"}),
           Tells("ww", {"glBindTexture"}),
           Calls("w", {"data"}, {}, {"data"}, {"glGenTextures"}),
           Sends("w", {"data"}, {"glDeleteTextures"})}

\* Two-dimensional images; a client pointer may be an offset into a pixel
\* unpack buffer, then nothing is brought, and a persistently mapped unpack
\* buffer adds its bytes as data2.
TextureImages ==
    UNION {MaySend("wwwwwwwww", {"data"}, {"glTexImage2D"}),
           MaySend("wwwwwwwww", {"data", "data2"}, {"glTexSubImage2D"})}

\* Compressed two-dimensional images.
CompressedImages ==
    UNION {MaySend("wwwwwwww", {"data"}, {"glCompressedTexImage2D"}),
           MaySend("wwwwwwwww", {"data"}, {"glCompressedTexSubImage2D"})}

\* Copies out of the framebuffer and texture parameters.
TextureParameters ==
    UNION {Tells("wwwwwwww", {"glCopyTexImage2D", "glCopyTexSubImage2D"}),
           Tells("wwf", {"glTexParameterf"}),
           Tells("www", {"glTexParameteri"}),
           Sends("ww", {"data"}, {"glTexParameterfv", "glTexParameteriv"})}

\* Texture parameter queries, mipmaps, pixel store.
TextureQueries ==
    UNION {Calls("ww", {"data"}, {}, {"data"}, {"glGetTexParameterfv",
                       "glGetTexParameteriv"}),
           Tells("w", {"glGenerateMipmap"}),
           Tells("ww", {"glPixelStorei"})}

\* Buffer names.
BufferNames ==
    UNION {Keeping({"data2"}, Calls("w", {"data"}, {}, {"data"}, {"glGenBuffers"})),
           Keeping({"data2"}, Sends("w", {"data"}, {"glDeleteBuffers"}))}

\* Buffer binding, contents and queries.
BufferContents ==
    UNION {Tells("ww", {"glBindBuffer"}),
           MaySend("wdww", {"data"}, {"glBufferData"}),
           Sends("wdd", {"data"}, {"glBufferSubData"}),
           Calls("ww", {"data"}, {}, {"data"}, {"glGetBufferParameteriv"})}

\* Framebuffer names and binding.
FramebufferNames ==
    UNION {Keeping({"data2"}, Calls("w", {"data"}, {}, {"data"}, {"glGenFramebuffers"})),
           Keeping({"data2"}, Sends("w", {"data"}, {"glDeleteFramebuffers"})),
           Tells("ww", {"glBindFramebuffer"})}

\* Framebuffer attachments.
FramebufferAttachments ==
    UNION {Tells("wwwww", {"glFramebufferTexture2D"}),
           Tells("wwww", {"glFramebufferRenderbuffer"}),
           Asks("w", {"value"}, {"glCheckFramebufferStatus"}),
           Asks("www", {"slot"}, {"glGetFramebufferAttachmentParameteriv"})}

\* Renderbuffers; the names to delete travel as arguments.
Renderbuffers ==
    UNION {Keeping({"data2"}, Calls("w", {"data"}, {}, {"data"}, {"glGenRenderbuffers"})),
           Keeping({"data", "data2"}, Tells("w*", {"glDeleteRenderbuffers"})),
           Tells("ww", {"glBindRenderbuffer"}),
           Tells("wwww", {"glRenderbufferStorage"}),
           Asks("ww", {"slot"}, {"glGetRenderbufferParameteriv"})}

\* Shaders and their sources, each source a range of the arena.
ShaderObjects ==
    UNION {Asks("w", {"value"}, {"glCreateShader"}),
           Tells("w", {"glDeleteShader", "glCompileShader"}),
           Keeping({"data2"}, MaySend("ww*", {"list"}, {"glShaderSource"})),
           Asks("ww", {"slot"}, {"glGetShaderiv"})}

\* Shader logs, sources, binaries, precision.
ShaderTexts ==
    UNION {Calls("ww", {}, {"data"}, {"slot", "data"}, {"glGetShaderInfoLog",
                       "glGetShaderSource"}),
           Sends("www", {"data", "data2"}, {"glShaderBinary"}),
           Tells("", {"glReleaseShaderCompiler"}),
           Calls("ww", {"data"}, {}, {"data"}, {"glGetShaderPrecisionFormat"})}

\* Programs.
ProgramObjects ==
    UNION {Asks("", {"value"}, {"glCreateProgram"}),
           Tells("w", {"glDeleteProgram", "glLinkProgram", "glUseProgram",
               "glValidateProgram"}),
           Tells("ww", {"glAttachShader", "glDetachShader"}),
           Asks("ww", {"slot"}, {"glGetProgramiv"})}

\* Program logs, attached shaders, uniforms by name or index.
ProgramTexts ==
    UNION {Calls("ww", {"data"}, {}, {"slot", "data"}, {"glGetProgramInfoLog"}),
           Calls("ww", {}, {"data"}, {"slot", "data"}, {"glGetAttachedShaders"}),
           Calls("w", {"data"}, {}, {"value"}, {"glGetUniformLocation"}),
           Calls("www", {"data"}, {}, {"slot", "buffer", "data"}, {"glGetActiveUniform"})}

\* The glUniform* macros: scalars as arguments, vectors and matrices as
\* data.
UniformSetters ==
    UNION {Tells("wf", {"glUniform1f"}),
           Tells("ww", {"glUniform1i"}),
           Tells("wff", {"glUniform2f"}),
           Tells("www", {"glUniform2i"}),
           Tells("wfff", {"glUniform3f"}),
           Tells("wwww", {"glUniform3i"}),
           Tells("wffff", {"glUniform4f"}),
           Tells("wwwww", {"glUniform4i"}),
           Sends("ww", {"data"}, {"glUniform1fv", "glUniform1iv", "glUniform2fv",
               "glUniform2iv", "glUniform3fv", "glUniform3iv", "glUniform4fv", "glUniform4iv"}),
           Sends("www", {"data"}, {"glUniformMatrix2fv", "glUniformMatrix3fv",
               "glUniformMatrix4fv"})}

\* Uniform values, attributes by name or index.
UniformQueries ==
    UNION {Calls("ww", {"data"}, {}, {"data"}, {"glGetUniformfv", "glGetUniformiv"}),
           Calls("w", {"data"}, {}, {"value"}, {"glGetAttribLocation"}),
           Calls("www", {"data"}, {}, {"slot", "buffer", "data"}, {"glGetActiveAttrib"}),
           Sends("ww", {"data"}, {"glBindAttribLocation"})}

\* Attribute arrays; a pointer is sent as the 64-bit number it is.
AttribPointers ==
    UNION {Tells("wwwwwdw", {"glVertexAttribPointer"}),
           Tells("w", {"glEnableVertexAttribArray", "glDisableVertexAttribArray"})}

\* Attribute queries.
AttribQueries ==
    UNION {Calls("ww", {"data"}, {}, {"data"}, {"glGetVertexAttribfv",
                       "glGetVertexAttribiv"}),
           Asks("ww", {"value"}, {"glGetVertexAttribPointerv"})}

\* The glVertexAttrib* constants.
AttribSetters ==
    UNION {Tells("wf", {"glVertexAttrib1f"}),
           Tells("wff", {"glVertexAttrib2f"}),
           Tells("wfff", {"glVertexAttrib3f"}),
           Tells("wffff", {"glVertexAttrib4f"}),
           Sends("w", {"data"}, {"glVertexAttrib1fv", "glVertexAttrib2fv",
               "glVertexAttrib3fv", "glVertexAttrib4fv"})}

\* glDrawArrays: the enabled client arrays in ranges named by the arguments,
\* the dirty range of a persistently mapped buffer as data2.
DrawArrays ==
    MaySend("wwww*www", {"list", "data2"}, {"glDrawArrays"})

\* glDrawElements: the indices of the client, or those of a mapped element
\* buffer, as data; the rest as for glDrawArrays.
DrawElements ==
    MaySend("wwwdww*wwwwww", {"list", "data", "data2"}, {"glDrawElements"})

\* Viewport, scissor, capabilities, culling.
ViewportAndEnables ==
    UNION {Tells("wwww", {"glViewport", "glScissor"}),
           Tells("w", {"glEnable", "glDisable", "glCullFace"}),
           Asks("w", {"value"}, {"glIsEnabled"})}

\* Front face, lines, polygon offset, sample coverage, hints.
LineState ==
    UNION {Tells("w", {"glFrontFace"}),
           Tells("f", {"glLineWidth"}),
           Tells("ff", {"glPolygonOffset"}),
           Tells("fw", {"glSampleCoverage"}),
           Tells("ww", {"glHint"})}

\* Blending.
Blending ==
    UNION {Tells("ffff", {"glBlendColor"}),
           Tells("w", {"glBlendEquation"}),
           Tells("ww", {"glBlendEquationSeparate", "glBlendFunc"}),
           Tells("wwww", {"glBlendFuncSeparate"})}

\* Depth test, depth range, color mask.
DepthAndColor ==
    UNION {Tells("w", {"glDepthFunc", "glDepthMask"}),
           Tells("ff", {"glDepthRangef"}),
           Tells("wwww", {"glColorMask"})}

\* Stencil.
Stencil ==
    UNION {Tells("www", {"glStencilFunc", "glStencilOp"}),
           Tells("wwww", {"glStencilFuncSeparate", "glStencilOpSeparate"}),
           Tells("w", {"glStencilMask"}),
           Tells("ww", {"glStencilMaskSeparate"})}

\* Clears.
Clears ==
    UNION {Tells("w", {"glClear", "glClearStencil"}),
           Tells("ffff", {"glClearColor"}),
           Tells("f", {"glClearDepthf"})}

\* Errors and state queries.
StateQueries ==
    UNION {Asks("", {"value"}, {"glGetError"}),
           Calls("w", {"data"}, {}, {"data"}, {"glGetBooleanv", "glGetFloatv",
               "glGetIntegerv"})}

\* Strings, pixels (without a region and without waiting when a pixel pack
\* buffer is bound), finish, flush.
StringsAndPixels ==
    UNION {Asks("w", {"buffer"}, {"glGetString"}),
           Calls("wwwwww", {"data"}, {}, {"data"}, {"glReadPixels"}),
           Tells("wwwwww", {"glReadPixels into a pack buffer"}),
           Asks("", {}, {"glFinish"}),
           Tells("", {"glFlush"})}

\* The glIs* macro.
ObjectQueries ==
    Asks("w", {"value"}, {"glIsBuffer", "glIsFramebuffer", "glIsProgram",
        "glIsRenderbuffer", "glIsShader", "glIsTexture"})

(***************************************************************************)
(* src/stub/gles3_2_stub.c                                                 *)
(***************************************************************************)
\* Vertex array objects.
VertexArrays ==
    UNION {Asks("w", {"buffer"}, {"glGenVertexArrays"}),
           Sends("w", {"data"}, {"glDeleteVertexArrays"}),
           Tells("w", {"glBindVertexArray"}),
           Asks("w", {"value"}, {"glIsVertexArray"})}

\* Query objects.
Queries ==
    UNION {Asks("w", {"buffer"}, {"glGenQueries"}),
           Sends("w", {"data"}, {"glDeleteQueries"}),
           Tells("ww", {"glBeginQuery"}),
           Tells("w", {"glEndQuery"})}

\* Sampler binding, instanced arrays.
InstancedArrays ==
    UNION {Tells("ww", {"glBindSampler", "glVertexAttribDivisor"}),
           Tells("wwww", {"glDrawArraysInstanced"})}

\* glMapBufferRange: room for the contents is brought if the map may be
\* read, and the offset of the answer is read from the slot.
MapBufferRange ==
    Calls("wddww", {}, {"data"}, {"slot", "data"}, {"glMapBufferRange"})

\* Texture storage and sync objects; glClientWaitSync waits only when its
\* answer is not known here.
Syncs ==
    UNION {Keeping({"data", "data2"}, Tells("wwwww", {"glTexStorage2D"})),
           Tells("www", {"glFenceSync"}),
           Asks("wwdw", {"value"}, {"glClientWaitSync"}),
           Tells("wwdw", {"glClientWaitSync"}),
           Tells("w", {"glDeleteSync"})}

\* Debug messages; glDebugMessageCallback sends nothing.
DebugMessages ==
    MaySend("wwwww", {"data"}, {"glDebugMessageControl"})

\* The flushed bytes.
FlushMappedBufferRange ==
    Sends("wwww", {"data"}, {"glFlushMappedBufferRange"})

\* The bytes written through the map.
UnmapBuffer ==
    Calls("ww", {}, {"data"}, {"value"}, {"glUnmapBuffer"})

\* Three-dimensional images.
TextureImages3D ==
    UNION {Keeping({"data2"}, MaySend("wwwwwwwwww", {"data"}, {"glTexImage3D"})),
           MaySend("wwwwwwwwww", {"data", "data2"}, {"glTexSubImage3D"})}

\* Compressed three-dimensional images.
CompressedImages3D ==
    UNION {MaySend("wwwwwwwww", {"data"}, {"glCompressedTexImage3D"}),
           MaySend("wwwwwwwwwww", {"data"}, {"glCompressedTexSubImage3D"}),
           Tells("wwwwwwwww", {"glCopyTexSubImage3D"})}

\* Strings and integers by index; a fragment output is sent by name behind
\* its program.
IndexedQueries ==
    UNION {Keeping({"data", "data2"}, Asks("ww", {"buffer"}, {"glGetStringi"})),
           Keeping({"data", "data2"}, Asks("w", {"buffer", "length"}, {"glGetInteger64v"})),
           Keeping({"data", "data2"}, Asks("w", {"slot"}, {"glGetFragDataLocation"})),
           Asks("ww", {"buffer", "length"}, {"glGetBooleani_v"})}

\* Integer attributes.
IntegerAttribs ==
    UNION {Tells("wwwww", {"glVertexAttribI4i", "glVertexAttribI4ui"}),
           Sends("w", {"data"}, {"glVertexAttribI4iv", "glVertexAttribI4uiv"}),
           Tells("", {"glEndTransformFeedback"})}

\* Varyings and unsigned uniforms read back.
VaryingsAndUniforms ==
    UNION {Asks("www", {"buffer"}, {"glGetTransformFeedbackVarying"}),
           Asks("ww", {"buffer"}, {"glGetUniformuiv"})}

\* Unsigned uniforms.
UnsignedUniforms123 ==
    UNION {Tells("ww", {"glUniform1ui"}),
           Sends("ww", {"data"}, {"glUniform1uiv", "glUniform2uiv", "glUniform3uiv"}),
           Tells("www", {"glUniform2ui"}),
           Tells("wwww", {"glUniform3ui"})}

\* Unsigned uniforms of four components, integer arrays.
UnsignedUniform4 ==
    UNION {Tells("wwwww", {"glUniform4ui"}),
           Sends("ww", {"data"}, {"glUniform4uiv"}),
           Tells("wwwwdw", {"glVertexAttribIPointer"})}

\* Storage, and state per draw buffer.
IndexedCapabilities ==
    UNION {Tells("wwwwww", {"glTexStorage3D"}),
           Tells("wwwww", {"glColorMaski"}),
           Tells("ww", {"glEnablei", "glDisablei"}),
           Asks("ww", {"value"}, {"glIsEnabledi"})}

\* Integer texture parameters.
IntegerTexParameters ==
    UNION {Asks("ww", {"buffer"}, {"glGetTexParameterIiv", "glGetTexParameterIuiv"}),
           Sends("ww", {"data"}, {"glTexParameterIiv", "glTexParameterIuiv"})}

\* Integer attribute and query object queries.
IntegerAttribQueries ==
    UNION {Asks("ww", {"buffer"}, {"glGetVertexAttribIiv", "glGetVertexAttribIuiv",
                       "glGetQueryiv", "glGetQueryObjectuiv"}),
           Asks("w", {"value"}, {"glIsQuery"})}

\* Indexed buffer bindings; the dirty bytes of a mapped uniform buffer are
\* brought along.
IndexedBuffers ==
    UNION {Tells("www", {"glBindBufferBase"}),
           MaySend("wwwdd", {"data"}, {"glBindBufferRange"}),
           Asks("ww", {"buffer", "length"}, {"glGetBufferPointerv"})}

\* Samplers.
Samplers ==
    UNION {Asks("w", {"buffer"}, {"glGenSamplers"}),
           Sends("w", {"data"}, {"glDeleteSamplers"}),
           Tells("www", {"glSamplerParameteri"}),
           Sends("ww", {"data"}, {"glSamplerParameteriv", "glSamplerParameterfv"}),
           Tells("wwf", {"glSamplerParameterf"}),
           Asks("ww", {"buffer"}, {"glGetSamplerParameteriv", "glGetSamplerParameterfv"})}

\* Samplers and syncs asked for.
SyncQueries ==
    UNION {Asks("w", {"value"}, {"glIsSampler", "glIsSync"}),
           Tells("wwd", {"glWaitSync"}),
           Asks("www", {"buffer", "length"}, {"glGetSynciv"})}

\* Transform feedback varyings, uniform blocks.
TransformVaryings ==
    UNION {Tells("w", {"glBeginTransformFeedback"}),
           Sends("www", {"data"}, {"glTransformFeedbackVaryings"}),
           Calls("w", {"data"}, {}, {"value"}, {"glGetUniformBlockIndex"}),
           Tells("www", {"glUniformBlockBinding"})}

\* Multisampled storage, blits, layers.
Blits ==
    UNION {Tells("wwwww", {"glRenderbufferStorageMultisample",
                       "glFramebufferTextureLayer"}),
           Tells("wwwwwwwwww", {"glBlitFramebuffer"})}

\* Transform feedback objects, buffer copies.
TransformFeedbacks ==
    UNION {Asks("w", {"buffer"}, {"glGenTransformFeedbacks"}),
           Sends("w", {"data"}, {"glDeleteTransformFeedbacks"}),
           Tells("ww", {"glBindTransformFeedback"}),
           Tells("", {"glPauseTransformFeedback", "glResumeTransformFeedback"}),
           Asks("w", {"value"}, {"glIsTransformFeedback"}),
           Tells("wwddd", {"glCopyBufferSubData"})}

\* Instanced elements, uniform indices and blocks.
InstancedElements ==
    UNION {MaySend("wwww", {"data"}, {"glDrawElementsInstanced"}),
           Calls("ww", {"data"}, {}, {"buffer"}, {"glGetUniformIndices"}),
           Calls("www", {"data"}, {}, {"buffer"}, {"glGetActiveUniformsiv"}),
           Asks("www", {"buffer"}, {"glGetActiveUniformBlockiv"}),
           Asks("www", {"buffer", "length"}, {"glGetActiveUniformBlockName"})}

\* Images, ranged draws, pointers, debug groups.
ImagesAndRanges ==
    UNION {Tells("wwwwwww", {"glBindImageTexture"}),
           Tells("wwwwwd", {"glDrawRangeElements"}),
           Tells("wwwwww", {"glSamplerParameterIiv"}),
           Asks("w", {"buffer", "length"}, {"glGetPointerv"}),
           Tells("", {"glPopDebugGroup"})}

\* glGetProgramBinary: the length in the result buffer, the binary in the
\* region.
ProgramBinary ==
    Calls("ww", {"data"}, {}, {"buffer", "length", "data"}, {"glGetProgramBinary"})

\* Draw buffers, clears, buffer textures.
DrawBuffers ==
    UNION {Tells("w", {"glReadBuffer"}),
           Tells("w*", {"glDrawBuffers"}),
           Tells("wwfw", {"glClearBufferfi"}),
           Tells("wwffff", {"glClearBufferfv"}),
           Tells("wwwwww", {"glClearBufferiv", "glClearBufferuiv"}),
           Tells("www", {"glTexBuffer"})}

\* 64-bit and indexed queries.
WideQueries ==
    UNION {Asks("ww", {"buffer", "length"}, {"glGetBufferParameteri64v",
                       "glGetInteger64i_v", "glGetIntegeri_v"}),
           Tells("wwww", {"glFramebufferTexture"}),
           Asks("wwww", {"buffer", "length"}, {"glGetInternalformativ"})}

\* Integer sampler parameters.
SamplerIntegerQueries ==
    UNION {Asks("ww", {"buffer", "length"}, {"glGetSamplerParameterIiv",
                       "glGetSamplerParameterIuiv"}),
           Tells("wwwwww", {"glSamplerParameterIuiv"})}

\* Program binaries, multisampled storage.
ProgramBinaries ==
    UNION {MaySend("www", {"data"}, {"glProgramBinary"}),
           Tells("www", {"glProgramParameteri"}),
           Tells("wwwwwww", {"glTexStorage3DMultisample"})}

\* glDrawElementsBaseVertex.
DrawElementsBaseVertex ==
    MaySend("wwwdwwwwwwww", {"data", "data2"}, {"glDrawElementsBaseVertex"})

\* The other base vertex draws, debug message log.
BaseVertexDraws ==
    UNION {Tells("wwwdww", {"glDrawElementsInstancedBaseVertex"}),
           Tells("wwwwwdw", {"glDrawRangeElementsBaseVertex"}),
           Tells("f", {"glMinSampleShading"}),
           MaySend("wwwww", {"data"}, {"glDebugMessageInsert"}),
           Asks("ww", {"buffer", "length"}, {"glGetDebugMessageLog"})}

\* Object labels, debug groups.
ObjectLabels ==
    UNION {Asks("www", {"buffer", "length"}, {"glGetObjectLabel"}),
           Asks("dw", {"buffer", "length"}, {"glGetObjectPtrLabel"}),
           MaySend("www", {"data"}, {"glObjectLabel", "glPushDebugGroup"})}

\* Image copies, barriers, compute.
CopyAndCompute ==
    UNION {Tells("wwwwwwwwwwwwwww", {"glCopyImageSubData"}),
           Tells("w", {"glMemoryBarrier"}),
           Tells("www", {"glDispatchCompute"}),
           Tells("d", {"glDispatchComputeIndirect"})}

\* Multisampled storage, pointer labels, bounding box, program stages.
BoundingBoxes ==
    UNION {Tells("wwwwww", {"glTexStorage2DMultisample"}),
           MaySend("dw", {"data"}, {"glObjectPtrLabel"}),
           Tells("ffffffff", {"glPrimitiveBoundingBox"}),
           Tells("www", {"glUseProgramStages"}),
           Tells("w", {"glBindProgramPipeline"})}

\* Program pipelines, indirect draws.
ProgramPipelines ==
    UNION {Asks("w", {"buffer", "length"}, {"glGenProgramPipelines",
                       "glIsProgramPipeline"}),
           Tells("w*", {"glDeleteProgramPipelines"}),
           Tells("wd", {"glDrawArraysIndirect"}),
           Tells("wwd", {"glDrawElementsIndirect"})}

\* Matrices that are not square.
NonSquareMatrices ==
    Sends("www", {"data"}, {"glUniformMatrix2x3fv", "glUniformMatrix3x2fv",
        "glUniformMatrix2x4fv", "glUniformMatrix4x2fv", "glUniformMatrix3x4fv",
        "glUniformMatrix4x3fv"})

\* Program interfaces.
ProgramInterfaces ==
    UNION {Asks("www", {"buffer", "length"}, {"glGetProgramInterfaceiv"}),
           Calls("ww", {}, {"data"}, {"buffer", "length"}, {"glGetProgramResourceIndex"}),
           Asks("wwww", {"buffer", "length"}, {"glGetProgramResourceName"}),
           Calls("wwwww", {}, {"data"}, {"buffer", "length"}, {"glGetProgramResourceiv"})}

\* Program resources, separable programs.
ShaderPrograms ==
    UNION {Calls("ww", {}, {"data"}, {"buffer", "length"}, {"glGetProgramResourceLocation",
                       "glCreateShaderProgramv"}),
           Tells("ww", {"glActiveShaderProgram"}),
           Tells("w", {"glValidateProgramPipeline", "glMemoryBarrierByRegion"}),
           Asks("ww", {"buffer", "length"}, {"glGetProgramPipelineInfoLog"})}

\* Robust reads, patches, buffer ranges.
RobustReads ==
    UNION {Tells("", {"glBlendBarrier"}),
           Asks("", {"buffer", "length"}, {"glGetGraphicsResetStatus"}),
           Asks("wwwwwww", {"buffer"}, {"glReadnPixels"}),
           Asks("www", {"buffer"}, {"glGetnUniformfv", "glGetnUniformiv",
               "glGetnUniformuiv"}),
           Tells("ww", {"glPatchParameteri"}),
           Tells("wwwdd", {"glTexBufferRange"})}

(***************************************************************************)
(* src/stub/egl_stub.c                                                     *)
(***************************************************************************)
\* Errors, displays, initialisation.
Displays ==
    UNION {Asks("", {"value"}, {"eglGetError"}),
           Asks("wd", {"value"}, {"eglGetPlatformDisplayEXT"}),
           Asks("ww", {"value"}, {"eglGetDisplay"}),
           Asks("w", {"value", "buffer"}, {"eglInitialize"})}

\* Termination, threads, strings.
DisplayStrings ==
    UNION {Asks("w", {"value"}, {"eglTerminate"}),
           Asks("", {"value"}, {"eglReleaseThread"}),
           Asks("ww", {"buffer"}, {"eglQueryString"})}

\* eglGetConfigs.
Configs ==
    Calls("ww", {}, {"data"}, {"value", "data"}, {"eglGetConfigs"})

\* eglChooseConfig: the attributes as data, room for the handles as data2.
ChooseConfig ==
    Calls("wwww", {}, {"data", "data2"}, {"value", "data2"}, {"eglChooseConfig"})

\* Config attributes, window surfaces.
WindowSurfaces ==
    UNION {Asks("www", {"value"}, {"eglGetConfigAttrib"}),
           Calls("wwwwwww", {}, {"data"}, {"value"}, {"eglCreateWindowSurface"})}

\* Pbuffers, pixmaps, surface destruction.
OtherSurfaces ==
    UNION {Keeping({"data2"}, Calls("www", {}, {"data"}, {"value"},
                       {"eglCreatePbufferSurface"})),
           Keeping({"data2"}, Calls("wwdw", {}, {"data"}, {"value"},
               {"eglCreatePixmapSurface"})),
           Asks("ww", {"value"}, {"eglDestroySurface"})}

\* Surface attributes and texture images.
SurfaceQueries ==
    UNION {Asks("www", {"value"}, {"eglQuerySurface", "eglBindTexImage",
                       "eglReleaseTexImage"}),
           Asks("wwww", {"value"}, {"eglSurfaceAttrib"}),
           Asks("wwd", {"value"}, {"eglCopyBuffers"})}

\* Contexts.
Contexts ==
    UNION {Keeping({"data2"}, Calls("wwww", {}, {"data"}, {"value"}, {"eglCreateContext"})),
           Asks("ww", {"value"}, {"eglDestroyContext"})}

\* The current context.
CurrentContext ==
    UNION {Asks("wwww", {"value"}, {"eglMakeCurrent"}),
           Asks("", {"value"}, {"eglGetCurrentContext", "eglGetCurrentDisplay"}),
           Asks("w", {"value"}, {"eglGetCurrentSurface"}),
           Asks("www", {"value", "slot"}, {"eglQueryContext"})}

\* Swaps (without waiting when they are asynchronous), waits, API.
Swaps ==
    UNION {Asks("ww", {"value"}, {"eglSwapBuffers", "eglSwapInterval"}),
           Tells("ww", {"eglSwapBuffers"}),
           Asks("", {"value"}, {"eglWaitGL", "eglWaitClient", "eglQueryAPI"}),
           Asks("w", {"value"}, {"eglWaitNative", "eglBindAPI"})}

\* Function addresses.
ProcAddresses ==
    Asks("ww", {"value"}, {"eglGetProcAddress"})

\* Images; the attributes travel behind a count.
EglImages ==
    UNION {Asks("ddwd*", {"value"}, {"eglCreateImageKHR"}),
           Asks("dd", {"value"}, {"eglDestroyImageKHR"})}

(***************************************************************************)
(* src/stub/wl_egl_stub.c                                                  *)
(***************************************************************************)
\* Wayland EGL windows.
WaylandWindows ==
    UNION {Asks("www", {"value"}, {"wl_egl_window_create"}),
           Tells("w", {"wl_egl_window_destroy"}),
           Tells("wwwww", {"wl_egl_window_resize"})}

StubCalls ==
    UNION {TextureBinding, TextureImages, CompressedImages, TextureParameters,
           TextureQueries, BufferNames, BufferContents, FramebufferNames,
           FramebufferAttachments, Renderbuffers, ShaderObjects, ShaderTexts,
           ProgramObjects, ProgramTexts, UniformSetters, UniformQueries,
           AttribPointers, AttribQueries, AttribSetters, DrawArrays, DrawElements,
           ViewportAndEnables, LineState, Blending, DepthAndColor, Stencil, Clears,
           StateQueries, StringsAndPixels, ObjectQueries, VertexArrays, Queries,
           InstancedArrays, MapBufferRange, Syncs, DebugMessages,
           FlushMappedBufferRange, UnmapBuffer, TextureImages3D, CompressedImages3D,
           IndexedQueries, IntegerAttribs, VaryingsAndUniforms, UnsignedUniforms123,
           UnsignedUniform4, IndexedCapabilities, IntegerTexParameters,
           IntegerAttribQueries, IndexedBuffers, Samplers, SyncQueries,
           TransformVaryings, Blits, TransformFeedbacks, InstancedElements,
           ImagesAndRanges, ProgramBinary, DrawBuffers, WideQueries,
           SamplerIntegerQueries, ProgramBinaries, DrawElementsBaseVertex,
           BaseVertexDraws, ObjectLabels, CopyAndCompute, BoundingBoxes,
           ProgramPipelines, NonSquareMatrices, ProgramInterfaces, ShaderPrograms,
           RobustReads, Displays, DisplayStrings, Configs, ChooseConfig,
           WindowSurfaces, OtherSurfaces, SurfaceQueries, Contexts, CurrentContext,
           Swaps, ProcAddresses, EglImages, WaylandWindows}
=============================================================================
