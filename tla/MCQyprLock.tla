----------------------------- MODULE MCQyprLock -----------------------------
EXTENDS QyprLock
=============================================================================
