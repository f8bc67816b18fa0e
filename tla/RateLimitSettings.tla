-------------------------- MODULE RateLimitSettings --------------------------
(* Settings that the rate limit of the gate and the block of logins share. *)
CONSTANTS MaxTracked,   \* MAX_TRACKED_RATE_LIMIT_KEYS
          RedisInUse    \* REDIS_URL is set and the package is installed
=============================================================================
