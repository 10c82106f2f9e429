--------------------------- MODULE GLProxyCalls ---------------------------
(***************************************************************************)
(* What every handler of the proxy reads from its command and gives back,  *)
(* in the order of the source.                                             *)
(***************************************************************************)
EXTENDS CallShapes

(***************************************************************************)
(* src/proxy/protocol/gles2.c                                              *)
(***************************************************************************)
\* Textures: active unit, binding, names.
TextureBinding ==
    UNION {Runs("w", {"glActiveTexture"}),
           Runs("ww", {"glBindTexture"}),
           Replies("w", {"value", "data"}, {"glGenTextures"}),
           RunsOn("w", {"data"}, {"glDeleteTextures"})}

\* Two-dimensional images.
TextureImages ==
    UNION {RunsIfGiven("wwwwwwwww", {"data"}, {"glTexImage2D"}),
           RunsIfGiven("wwwwwwwww", {"data", "data2"}, {"glTexSubImage2D"})}

\* Compressed images and copies out of the framebuffer.
CompressedImages ==
    UNION {RunsIfGiven("wwwwwwww", {"data"}, {"glCompressedTexImage2D"}),
           RunsIfGiven("wwwwwwwww", {"data"}, {"glCompressedTexSubImage2D"}),
           Runs("wwwwwwww", {"glCopyTexImage2D", "glCopyTexSubImage2D"})}

\* Texture parameters, mipmaps, pixel store.
TextureParameters ==
    UNION {Runs("wwf", {"glTexParameterf"}),
           Runs("www", {"glTexParameteri"}),
           RunsOn("ww", {"data"}, {"glTexParameterfv", "glTexParameteriv"}),
           Replies("ww", {"value", "data"}, {"glGetTexParameterfv", "glGetTexParameteriv"}),
           Runs("w", {"glGenerateMipmap"}),
           Runs("ww", {"glPixelStorei"})}

\* Mutant of BufferNames: the new names are counted but not stored.
BufferNamesUnstored ==
    UNION {Replies("w", {"value"}, {"glGenBuffers"}),
           RunsOn("w", {"data"}, {"glDeleteBuffers"}),
           Runs("ww", {"glBindBuffer"})}

\* Buffer names and binding.
BufferNames ==
    UNION {Replies("w", {"value", "data"}, {"glGenBuffers"}),
           RunsOn("w", {"data"}, {"glDeleteBuffers"}),
           Runs("ww", {"glBindBuffer"})}

\* Buffer contents and queries.
BufferContents ==
    UNION {RunsIfGiven("wdww", {"data"}, {"glBufferData"}),
           RunsOn("wdd", {"data"}, {"glBufferSubData"}),
           Replies("ww", {"value", "data"}, {"glGetBufferParameteriv"})}

\* Framebuffer names and binding.
FramebufferNames ==
    UNION {Replies("w", {"value", "data"}, {"glGenFramebuffers"}),
           RunsOn("w", {"data"}, {"glDeleteFramebuffers"}),
           Runs("ww", {"glBindFramebuffer"})}

\* Framebuffer attachments.
FramebufferAttachments ==
    UNION {Runs("wwwww", {"glFramebufferTexture2D"}),
           Runs("wwww", {"glFramebufferRenderbuffer"}),
           Replies("w", {"value"}, {"glCheckFramebufferStatus"}),
           Replies("www", {"value"}, {"glGetFramebufferAttachmentParameteriv"})}

\* Renderbuffers.
Renderbuffers ==
    UNION {Replies("w", {"value", "data"}, {"glGenRenderbuffers"}),
           Replies("w*", {"value"}, {"glDeleteRenderbuffers"}),
           Runs("ww", {"glBindRenderbuffer"}),
           Runs("wwww", {"glRenderbufferStorage"}),
           Replies("ww", {"value"}, {"glGetRenderbufferParameteriv"})}

\* Shaders and their sources.
ShaderObjects ==
    UNION {Replies("w", {"value"}, {"glCreateShader"}),
           Runs("w", {"glDeleteShader", "glCompileShader"}),
           RunsIfGiven("ww*", {"list"}, {"glShaderSource"}),
           Replies("ww", {"value"}, {"glGetShaderiv"})}

\* Shader logs, sources, binaries, precision.
ShaderTexts ==
    UNION {Replies("ww", {"value", "data"}, {"glGetShaderInfoLog", "glGetShaderSource",
                       "glGetShaderPrecisionFormat"}),
           RunsOn("www", {"data", "data2"}, {"glShaderBinary"}),
           Runs("", {"glReleaseShaderCompiler"})}

\* Programs.
ProgramObjects ==
    UNION {Replies("", {"value"}, {"glCreateProgram"}),
           Runs("w", {"glDeleteProgram", "glLinkProgram"}),
           Runs("ww", {"glAttachShader", "glDetachShader"})}

\* Program use, logs, attached shaders.
ProgramTexts ==
    UNION {Runs("w", {"glUseProgram", "glValidateProgram"}),
           Replies("ww", {"value"}, {"glGetProgramiv"}),
           Replies("ww", {"value", "data"}, {"glGetProgramInfoLog",
               "glGetAttachedShaders"})}

\* Uniforms by name or index, their values.
UniformQueries ==
    UNION {Handler("w", {"data"}, {}, {"value"}, {"glGetUniformLocation"}),
           Replies("www", {"value", "buffer", "data"}, {"glGetActiveUniform"}),
           Replies("ww", {"value", "data"}, {"glGetUniformfv", "glGetUniformiv"})}

\* The glUniform* macros.
UniformSetters ==
    UNION {Runs("wf", {"glUniform1f"}),
           Runs("ww", {"glUniform1i"}),
           Runs("wff", {"glUniform2f"}),
           Runs("www", {"glUniform2i"}),
           Runs("wfff", {"glUniform3f"}),
           Runs("wwww", {"glUniform3i"}),
           Runs("wffff", {"glUniform4f"}),
           Runs("wwwww", {"glUniform4i"}),
           RunsOn("ww", {"data"}, {"glUniform1fv", "glUniform1iv", "glUniform2fv",
               "glUniform2iv", "glUniform3fv", "glUniform3iv", "glUniform4fv", "glUniform4iv"}),
           RunsOn("www", {"data"}, {"glUniformMatrix2fv", "glUniformMatrix3fv",
               "glUniformMatrix4fv"})}

\* Attributes by name or index.
AttribQueries ==
    UNION {Handler("w", {"data"}, {}, {"value"}, {"glGetAttribLocation"}),
           Replies("www", {"value", "buffer", "data"}, {"glGetActiveAttrib"}),
           RunsOn("ww", {"data"}, {"glBindAttribLocation"})}

\* Attribute arrays and their queries.
AttribPointers ==
    UNION {Runs("wwwwwdw", {"glVertexAttribPointer"}),
           Runs("w", {"glEnableVertexAttribArray", "glDisableVertexAttribArray"}),
           Replies("ww", {"value", "data"}, {"glGetVertexAttribfv", "glGetVertexAttribiv"}),
           Replies("ww", {"value"}, {"glGetVertexAttribPointerv"})}

\* The glVertexAttrib* constants.
AttribSetters ==
    UNION {Runs("wf", {"glVertexAttrib1f"}),
           Runs("wff", {"glVertexAttrib2f"}),
           Runs("wfff", {"glVertexAttrib3f"}),
           Runs("wffff", {"glVertexAttrib4f"}),
           RunsOn("w", {"data"}, {"glVertexAttrib1fv", "glVertexAttrib2fv",
               "glVertexAttrib3fv", "glVertexAttrib4fv"})}

\* glDrawArrays: patches the client arrays, writes the dirty range into the
\* map it belongs to.
DrawArrays ==
    RunsIfGiven("wwww*www", {"list", "data2"}, {"glDrawArrays"})

\* glDrawElements: the same, and the indices.
DrawElements ==
    RunsIfGiven("wwwdww*wwwwww", {"list", "data", "data2"}, {"glDrawElements"})

\* Viewport, scissor, capabilities, rasterisation.
RasterState ==
    UNION {Runs("wwww", {"glViewport", "glScissor"}),
           Runs("w", {"glEnable", "glDisable", "glCullFace", "glFrontFace"}),
           Replies("w", {"value"}, {"glIsEnabled"}),
           Runs("f", {"glLineWidth"}),
           Runs("ff", {"glPolygonOffset"}),
           Runs("fw", {"glSampleCoverage"}),
           Runs("ww", {"glHint"})}

\* Blending, depth, color mask, stencil function.
BlendAndDepth ==
    UNION {Runs("ffff", {"glBlendColor"}),
           Runs("w", {"glBlendEquation", "glDepthFunc", "glDepthMask"}),
           Runs("ww", {"glBlendEquationSeparate", "glBlendFunc"}),
           Runs("wwww", {"glBlendFuncSeparate", "glColorMask"}),
           Runs("ff", {"glDepthRangef"}),
           Runs("www", {"glStencilFunc"})}

\* Stencil, clears.
StencilAndClears ==
    UNION {Runs("wwww", {"glStencilFuncSeparate", "glStencilOpSeparate"}),
           Runs("w", {"glStencilMask", "glClear", "glClearStencil"}),
           Runs("ww", {"glStencilMaskSeparate"}),
           Runs("www", {"glStencilOp"}),
           Runs("ffff", {"glClearColor"}),
           Runs("f", {"glClearDepthf"})}

\* Errors, state, strings.
StateQueries ==
    UNION {Replies("", {"value"}, {"glGetError"}),
           Replies("w", {"value", "data"}, {"glGetBooleanv", "glGetFloatv",
               "glGetIntegerv"}),
           Replies("w", {"value", "buffer"}, {"glGetString"})}

\* glReadPixels.
ReadPixels ==
    UNION {Replies("wwwwww", {"value", "data"}, {"glReadPixels"}),
           Runs("wwwwww", {"glReadPixels into a pack buffer"})}

\* Finish, flush, the EGL error.
Finishes ==
    UNION {Replies("", {"value"}, {"glFinish", "eglGetError"}),
           Runs("", {"glFlush"})}

\* The glIs* macro.
ObjectQueries ==
    Replies("w", {"value"}, {"glIsBuffer", "glIsFramebuffer", "glIsProgram",
        "glIsRenderbuffer", "glIsShader", "glIsTexture"})

(***************************************************************************)
(* src/proxy/protocol/gles3_2.c                                            *)
(***************************************************************************)
\* Vertex array objects.
VertexArrays ==
    UNION {Replies("w", {"buffer", "length"}, {"glGenVertexArrays"}),
           RunsOn("w", {"data"}, {"glDeleteVertexArrays"}),
           Runs("w", {"glBindVertexArray"}),
           Replies("w", {"value"}, {"glIsVertexArray"})}

\* Query objects, sampler binding.
Queries ==
    UNION {Replies("w", {"buffer", "length"}, {"glGenQueries"}),
           RunsOn("w", {"data"}, {"glDeleteQueries"}),
           Runs("ww", {"glBeginQuery", "glBindSampler"}),
           Runs("w", {"glEndQuery"})}

\* Sampler parameters, instanced arrays.
InstancedArrays ==
    UNION {Runs("www", {"glSamplerParameteri"}),
           Runs("wwww", {"glDrawArraysInstanced"}),
           Runs("ww", {"glVertexAttribDivisor"})}

\* glMapBufferRange: the contents go to the region when the map may be read.
MapBufferRange ==
    Replies("wddww", {"value", "data"}, {"glMapBufferRange"})

\* glUnmapBuffer.
UnmapBuffer ==
    Handler("ww", {}, {"data"}, {"value", "length"}, {"glUnmapBuffer"})

\* Texture storage and sync objects.
Syncs ==
    UNION {Replies("wwwww", {"value"}, {"glTexStorage2D"}),
           Runs("www", {"glFenceSync"}),
           Replies("wwdw", {"value"}, {"glClientWaitSync"}),
           Runs("w", {"glDeleteSync"})}

\* Debug messages, flushed bytes.
FlushMappedBufferRange ==
    UNION {Runs("", {"glDebugMessageCallback"}),
           RunsIfGiven("wwwww", {"data"}, {"glDebugMessageControl"}),
           RunsOn("wwww", {"data"}, {"glFlushMappedBufferRange"})}

\* Mutant of TextureImages3D: glTexImage3D looks at data2 as glTexSubImage3D does.
TextureImages3DBoth ==
    RunsIfGiven("wwwwwwwwww", {"data", "data2"}, {"glTexImage3D", "glTexSubImage3D"})

\* Three-dimensional images.
TextureImages3D ==
    UNION {RunsIfGiven("wwwwwwwwww", {"data"}, {"glTexImage3D"}),
           RunsIfGiven("wwwwwwwwww", {"data", "data2"}, {"glTexSubImage3D"})}

\* Compressed three-dimensional images.
CompressedImages3D ==
    UNION {RunsIfGiven("wwwwwwwww", {"data"}, {"glCompressedTexImage3D"}),
           RunsIfGiven("wwwwwwwwwww", {"data"}, {"glCompressedTexSubImage3D"}),
           Runs("wwwwwwwww", {"glCopyTexSubImage3D"})}

\* Storage, strings and integers by index.
IndexedQueries ==
    UNION {Runs("wwwwww", {"glTexStorage3D"}),
           Replies("ww", {"value", "buffer"}, {"glGetStringi"}),
           Replies("w", {"value", "buffer", "length"}, {"glGetInteger64v"}),
           Replies("w", {"value"}, {"glGetFragDataLocation"}),
           OnlySometimes({"buffer", "length"}, Replies("ww", {"buffer", "length"},
               {"glGetBooleani_v"}))}

\* Integer attributes, transform feedback.
IntegerAttribs ==
    UNION {Runs("wwwww", {"glVertexAttribI4i", "glVertexAttribI4ui"}),
           RunsOn("w", {"data"}, {"glVertexAttribI4iv", "glVertexAttribI4uiv"}),
           Runs("wwwwdw", {"glVertexAttribIPointer"}),
           Runs("w", {"glBeginTransformFeedback"}),
           Runs("", {"glEndTransformFeedback"}),
           RunsOn("www", {"data"}, {"glTransformFeedbackVaryings"}),
           Replies("www", {"buffer"}, {"glGetTransformFeedbackVarying"})}

\* Unsigned uniforms, state per draw buffer.
UnsignedUniforms ==
    UNION {Runs("ww", {"glUniform1ui", "glEnablei", "glDisablei"}),
           Replies("ww", {"buffer", "length"}, {"glGetUniformuiv"}),
           RunsOn("ww", {"data"}, {"glUniform1uiv", "glUniform2uiv", "glUniform3uiv",
               "glUniform4uiv"}),
           Runs("www", {"glUniform2ui"}),
           Runs("wwww", {"glUniform3ui"}),
           Runs("wwwww", {"glUniform4ui", "glColorMaski"}),
           Replies("ww", {"value"}, {"glIsEnabledi"})}

\* Integer parameters of textures, attributes, queries.
IntegerParameters ==
    UNION {Replies("ww", {"buffer"}, {"glGetTexParameterIiv", "glGetTexParameterIuiv",
                       "glGetVertexAttribIiv", "glGetVertexAttribIuiv", "glGetQueryiv",
                       "glGetQueryObjectuiv"}),
           RunsOn("ww", {"data"}, {"glTexParameterIiv", "glTexParameterIuiv"}),
           Replies("w", {"value"}, {"glIsQuery"}),
           Runs("www", {"glBindBufferBase"})}

\* Indexed buffer bindings, samplers.
IndexedBuffers ==
    UNION {RunsIfGiven("wwwdd", {"data"}, {"glBindBufferRange"}),
           Replies("ww", {"value", "buffer", "length"}, {"glGetBufferPointerv"}),
           Replies("w", {"buffer"}, {"glGenSamplers"}),
           RunsOn("w", {"data"}, {"glDeleteSamplers"}),
           RunsOn("ww", {"data"}, {"glSamplerParameteriv", "glSamplerParameterfv"}),
           Runs("wwf", {"glSamplerParameterf"})}

\* Sampler, sync and uniform block queries.
SyncQueries ==
    UNION {Replies("ww", {"buffer"}, {"glGetSamplerParameteriv",
                       "glGetSamplerParameterfv"}),
           Replies("w", {"value"}, {"glIsSampler", "glIsSync"}),
           Runs("wwd", {"glWaitSync"}),
           Replies("www", {"buffer", "length"}, {"glGetSynciv"}),
           Handler("w", {"data"}, {}, {"value"}, {"glGetUniformBlockIndex"}),
           Runs("www", {"glUniformBlockBinding"}),
           Runs("wwwww", {"glRenderbufferStorageMultisample"})}

\* Blits, layers, transform feedback objects.
Blits ==
    UNION {Runs("wwwwwwwwww", {"glBlitFramebuffer"}),
           Runs("wwwww", {"glFramebufferTextureLayer"}),
           Replies("w", {"buffer"}, {"glGenTransformFeedbacks"}),
           RunsOn("w", {"data"}, {"glDeleteTransformFeedbacks"}),
           Runs("ww", {"glBindTransformFeedback"}),
           Runs("", {"glPauseTransformFeedback", "glResumeTransformFeedback"}),
           Replies("w", {"value"}, {"glIsTransformFeedback"}),
           Runs("wwddd", {"glCopyBufferSubData"})}

\* Instanced elements, uniform indices and blocks, images.
InstancedElements ==
    UNION {RunsIfGiven("wwww", {"data"}, {"glDrawElementsInstanced"}),
           Handler("ww", {"data"}, {}, {"buffer"}, {"glGetUniformIndices"}),
           Handler("www", {"data"}, {}, {"buffer"}, {"glGetActiveUniformsiv"}),
           Replies("www", {"buffer"}, {"glGetActiveUniformBlockiv"}),
           Replies("www", {"buffer", "length"}, {"glGetActiveUniformBlockName"}),
           Replies("wwwwwww", {"value", "length"}, {"glBindImageTexture"}),
           Replies("wwwwwd", {"value", "length"}, {"glDrawRangeElements"}),
           Replies("wwwwww", {"value", "length"}, {"glSamplerParameterIiv"})}

\* Pointers, program binary, draw buffers, clears.
ProgramBinary ==
    UNION {Replies("w", {"value", "buffer", "length"}, {"glGetPointerv"}),
           Replies("", {"value", "length"}, {"glPopDebugGroup"}),
           Replies("ww", {"value", "buffer", "length", "data"}, {"glGetProgramBinary"}),
           Replies("w", {"value", "length"}, {"glReadBuffer"}),
           Replies("w*", {"value", "length"}, {"glDrawBuffers"}),
           Replies("wwfw", {"value", "length"}, {"glClearBufferfi"}),
           Replies("wwffff", {"value", "length"}, {"glClearBufferfv"})}

\* Clears, buffer textures, 64-bit and indexed queries.
WideQueries ==
    UNION {Replies("wwwwww", {"value", "length"}, {"glClearBufferiv", "glClearBufferuiv"}),
           Replies("www", {"value", "length"}, {"glTexBuffer"}),
           Replies("ww", {"value", "buffer", "length"}, {"glGetBufferParameteri64v"}),
           OnlySometimes({"buffer", "length"}, Replies("ww", {"value", "buffer", "length"},
               {"glGetInteger64i_v", "glGetIntegeri_v"})),
           Replies("wwww", {"value", "length"}, {"glFramebufferTexture"}),
           Replies("wwww", {"value", "buffer", "length"}, {"glGetInternalformativ"})}

\* Integer sampler parameters, program binaries.
ProgramBinaries ==
    UNION {Replies("ww", {"value", "buffer", "length"}, {"glGetSamplerParameterIiv",
                       "glGetSamplerParameterIuiv"}),
           Replies("wwwwww", {"value", "length"}, {"glSamplerParameterIuiv"}),
           Handler("www", {}, {"data"}, {"value", "length"}, {"glProgramBinary"}),
           Replies("www", {"value", "length"}, {"glProgramParameteri"}),
           Replies("wwwwwww", {"value", "length"}, {"glTexStorage3DMultisample"})}

\* glDrawElementsBaseVertex.
DrawElementsBaseVertex ==
    Handler("wwwdwwwwwwww", {}, {"data", "data2"}, {"value", "length"},
        {"glDrawElementsBaseVertex"})

\* The other base vertex draws, debug messages.
BaseVertexDraws ==
    UNION {Replies("wwwdww", {"value", "length"}, {"glDrawElementsInstancedBaseVertex"}),
           Replies("wwwwwdw", {"value", "length"}, {"glDrawRangeElementsBaseVertex"}),
           Replies("f", {"value", "length"}, {"glMinSampleShading"}),
           Handler("wwwww", {}, {"data"}, {"value", "length"}, {"glDebugMessageInsert"}),
           Replies("ww", {"value", "buffer", "length"}, {"glGetDebugMessageLog"})}

\* Labels, debug groups, copies, compute.
ObjectLabels ==
    UNION {Replies("www", {"value", "buffer", "length"}, {"glGetObjectLabel"}),
           Replies("dw", {"value", "buffer", "length"}, {"glGetObjectPtrLabel"}),
           Handler("www", {}, {"data"}, {"value", "length"}, {"glPushDebugGroup"}),
           Replies("wwwwwwwwwwwwwww", {"value", "length"}, {"glCopyImageSubData"}),
           Replies("w", {"value", "length"}, {"glMemoryBarrier"}),
           Replies("www", {"value", "length"}, {"glDispatchCompute"}),
           Replies("d", {"value", "length"}, {"glDispatchComputeIndirect"}),
           Replies("wwwwww", {"value", "length"}, {"glTexStorage2DMultisample"})}

\* Pointer labels, bounding box, program pipelines.
ProgramPipelines ==
    UNION {Handler("www", {}, {"data"}, {"value", "length"}, {"glObjectLabel"}),
           Handler("dw", {}, {"data"}, {"value", "length"}, {"glObjectPtrLabel"}),
           Replies("ffffffff", {"value", "length"}, {"glPrimitiveBoundingBox"}),
           Replies("www", {"value", "length"}, {"glUseProgramStages"}),
           Replies("w", {"value", "length"}, {"glBindProgramPipeline"}),
           Replies("w", {"value", "buffer", "length"}, {"glGenProgramPipelines",
               "glIsProgramPipeline"}),
           Replies("w*", {"value", "length"}, {"glDeleteProgramPipelines"}),
           Replies("wd", {"value", "length"}, {"glDrawArraysIndirect"})}

\* Indirect draws, matrices that are not square.
NonSquareMatrices ==
    UNION {Replies("wwd", {"value", "length"}, {"glDrawElementsIndirect"}),
           Handler("www", {"data"}, {}, {"value", "length"}, {"glUniformMatrix2x3fv",
               "glUniformMatrix3x2fv", "glUniformMatrix2x4fv", "glUniformMatrix4x2fv",
               "glUniformMatrix3x4fv", "glUniformMatrix4x3fv"})}

\* Program interfaces and resources, separable programs.
ProgramInterfaces ==
    UNION {Replies("www", {"value", "buffer", "length"}, {"glGetProgramInterfaceiv"}),
           Handler("ww", {}, {"data"}, {"value", "buffer", "length"},
               {"glGetProgramResourceIndex", "glGetProgramResourceLocation",
               "glCreateShaderProgramv"}),
           Replies("wwww", {"value", "buffer", "length"}, {"glGetProgramResourceName"}),
           Handler("wwwww", {}, {"data"}, {"value", "buffer", "length"},
               {"glGetProgramResourceiv"}),
           Replies("ww", {"value", "length"}, {"glActiveShaderProgram"})}

\* Pipeline logs, barriers, robust reads.
RobustReads ==
    UNION {Replies("w", {"value", "length"}, {"glValidateProgramPipeline",
                       "glMemoryBarrierByRegion"}),
           Replies("ww", {"value", "buffer", "length"}, {"glGetProgramPipelineInfoLog"}),
           Replies("", {"value", "length"}, {"glBlendBarrier"}),
           Replies("", {"value", "buffer", "length"}, {"glGetGraphicsResetStatus"}),
           Replies("wwwwwww", {"value", "buffer", "length"}, {"glReadnPixels"}),
           Replies("www", {"value", "buffer", "length"}, {"glGetnUniformfv",
               "glGetnUniformiv", "glGetnUniformuiv"})}

\* Patches, buffer ranges, invalidation (no entry point sends the last two).
TextureRanges ==
    UNION {Replies("ww", {"value", "length"}, {"glPatchParameteri"}),
           Replies("wwwdd", {"value", "length"}, {"glTexBufferRange"}),
           RunsIfGiven("ww", {"data"}, {"glInvalidateFramebuffer"}),
           RunsIfGiven("wwwwww", {"data"}, {"glInvalidateSubFramebuffer"})}

(***************************************************************************)
(* src/proxy/protocol/egl.c                                                *)
(***************************************************************************)
\* Displays.
Displays ==
    UNION {Replies("wd", {"value"}, {"eglGetPlatformDisplayEXT"}),
           Replies("ww", {"value"}, {"eglGetDisplay"})}

\* Initialisation, threads, strings.
Initialisation ==
    UNION {Replies("w", {"value", "buffer"}, {"eglInitialize"}),
           Replies("w", {"value"}, {"eglTerminate"}),
           Replies("", {"value"}, {"eglReleaseThread"}),
           Replies("ww", {"value", "buffer"}, {"eglQueryString"})}

\* Configs.
Configs ==
    UNION {Replies("ww", {"value", "data"}, {"eglGetConfigs"}),
           Handler("wwww", {}, {"data"}, {"value", "data2"}, {"eglChooseConfig"})}

\* Config attributes, window surfaces.
WindowSurfaces ==
    UNION {Replies("www", {"value"}, {"eglGetConfigAttrib"}),
           Handler("wwwwwww", {}, {"data"}, {"value"}, {"eglCreateWindowSurface"})}

\* Other surfaces, surface attributes.
OtherSurfaces ==
    UNION {Handler("www", {}, {"data"}, {"value"}, {"eglCreatePbufferSurface"}),
           Handler("wwdw", {}, {"data"}, {"value"}, {"eglCreatePixmapSurface"}),
           Replies("ww", {"value"}, {"eglDestroySurface"}),
           Replies("www", {"value"}, {"eglQuerySurface", "eglBindTexImage",
               "eglReleaseTexImage"}),
           Replies("wwww", {"value"}, {"eglSurfaceAttrib"}),
           Replies("wwd", {"value"}, {"eglCopyBuffers"})}

\* Contexts.
Contexts ==
    UNION {Handler("wwww", {}, {"data"}, {"value"}, {"eglCreateContext"}),
           Replies("ww", {"value"}, {"eglDestroyContext"})}

\* The current context.
CurrentContext ==
    UNION {Replies("wwww", {"value"}, {"eglMakeCurrent"}),
           Replies("", {"value"}, {"eglGetCurrentContext", "eglGetCurrentDisplay"}),
           Replies("w", {"value"}, {"eglGetCurrentSurface"}),
           Replies("www", {"value"}, {"eglQueryContext"})}

\* Swaps, waits, API.
Swaps ==
    UNION {Replies("ww", {"value"}, {"eglSwapBuffers", "eglSwapInterval"}),
           Replies("", {"value"}, {"eglWaitGL", "eglWaitClient", "eglQueryAPI"}),
           Replies("w", {"value"}, {"eglWaitNative", "eglBindAPI"})}

\* Function addresses.
ProcAddresses ==
    Replies("ww", {"value"}, {"eglGetProcAddress"})

\* Images.
EglImages ==
    UNION {Replies("ddwd*", {"value"}, {"eglCreateImageKHR"}),
           Replies("dd", {"value"}, {"eglDestroyImageKHR"})}

(***************************************************************************)
(* src/proxy/protocol/wl_egl.c                                             *)
(***************************************************************************)
\* Wayland EGL windows.
WaylandWindows ==
    UNION {Replies("www", {"value"}, {"wl_egl_window_create"}),
           Runs("wwwww", {"wl_egl_window_resize"}),
           Runs("w", {"wl_egl_window_destroy"})}

ProxyCalls ==
    UNION {TextureBinding, TextureImages, CompressedImages, TextureParameters,
           BufferNames, BufferContents, FramebufferNames, FramebufferAttachments,
           Renderbuffers, ShaderObjects, ShaderTexts, ProgramObjects, ProgramTexts,
           UniformQueries, UniformSetters, AttribQueries, AttribPointers,
           AttribSetters, DrawArrays, DrawElements, RasterState, BlendAndDepth,
           StencilAndClears, StateQueries, ReadPixels, Finishes, ObjectQueries,
           VertexArrays, Queries, InstancedArrays, MapBufferRange, UnmapBuffer, Syncs,
           FlushMappedBufferRange, TextureImages3D, CompressedImages3D, IndexedQueries,
           IntegerAttribs, UnsignedUniforms, IntegerParameters, IndexedBuffers,
           SyncQueries, Blits, InstancedElements, ProgramBinary, WideQueries,
           ProgramBinaries, DrawElementsBaseVertex, BaseVertexDraws, ObjectLabels,
           ProgramPipelines, NonSquareMatrices, ProgramInterfaces, RobustReads,
           TextureRanges, Displays, Initialisation, Configs, WindowSurfaces,
           OtherSurfaces, Contexts, CurrentContext, Swaps, ProcAddresses, EglImages,
           WaylandWindows}
=============================================================================
