--------------------------- MODULE MCSandboxSession ---------------------------
EXTENDS SandboxSession

===============================================================================
