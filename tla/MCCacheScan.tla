---------------------------- MODULE MCCacheScan ----------------------------
EXTENDS CacheScan
=============================================================================
