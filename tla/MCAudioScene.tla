---------------------------- MODULE MCAudioScene -----------------------------
EXTENDS AudioScene

\* States that differ in the sound stream and the disconnected lock alone count as
\* one: no step reads either, and of the properties of this run only TypeOK, which
\* AudioSceneProofs shows for every state.
Sounding == <<calls, sets, notify, answering, scene, queue, odd,
              [out EXCEPT !.sound = "STOPPED", !.lock = FALSE]>>
=============================================================================
