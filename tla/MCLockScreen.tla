---------------------------- MODULE MCLockScreen ----------------------------
EXTENDS LockScreen
=============================================================================
